---- MODULE Spec2Model ----
(***************************************************************************)
(* FlashRead document-processing worker: the job-claim protocol of         *)
(* worker/src/db.py (claim_job, complete_job, fail_job) driven by the      *)
(* worker loop of worker/src/main.py, run by several worker processes      *)
(* against one shared store (tables document_jobs and documents).          *)
(*                                                                         *)
(* Every store round trip (one .execute()) is one atomic step; a worker's  *)
(* position between round trips is worker[w].pc.  Timestamp columns that   *)
(* are written but never read by the worker (updated_at, started_at,       *)
(* completed_at) are left out; locked_at is kept as set / not set.         *)
(***************************************************************************)
EXTENDS Integers, Sequences, FiniteSets, TLC

\* ---------------------------------------------------------------- bounds
NumWorkers == 2
NumJobs == 2
NumDocs == 2
\* largest max_attempts of a job: where store calls never raise, and where
\* they may
MaxAttempts == 3
MaxAttemptsFaulty == 2
MaxAttemptsRetried == 2
MaxClock == 2
MaxPriority == 1
\* largest page_count handed to the document-sufficiency predicates
MaxPageCount == 12
\* most pages of a PDF handed to a handler on its own
MaxPdfPages == 2
\* most blocks of a page handed to the page-quality check on its own
MaxBlocks == 10
MaxPageBlocks == 2
MaxEntries == 2

Workers == 1..NumWorkers
JobIds == 1..NumJobs
DocIds == 1..NumDocs

\* SQL NULL / Python None for scalar columns (ids and timestamps start at 1)
Null == 0
\* a timestamp column that has been set (datetime.utcnow().isoformat() + 'Z')
Stamp == 1
\* None for optional rows, results and texts: the empty tuple; Some(x) is <<x>>
None == <<>>
Some(x) == <<x>>

\* job_type values: the two the dispatcher knows and one it does not
JobTypes == {"extraction", "ocr", "thumbnail"}
\* texts of the exceptions a download, a handler or a store call can raise
Errors == {"boom"}

\* config.PIPELINE_VERSION
PIPELINE_VERSION == "1.0.0"

VARIABLES
  jobs,      \* table document_jobs: id -> row
  docs,      \* table documents: id -> row
  worker,    \* per worker process: position and local variables of main()
  now,       \* the wall clock, in epoch milliseconds
  failures,  \* history: per job, the processing attempts that have failed
  call       \* a call of one of the pure functions: arguments and return value

vars == <<jobs, docs, worker, now, failures, call>>

\* ------------------------------------------------------- pure helpers

\* extractor.get_pymupdf_version / PaddleEngine.get_version /
\* TesseractEngine.get_version
engine_version(engine) ==
  CASE engine = "pymupdf"   -> "fitz"
    [] engine = "paddle"    -> "2.7.3"
    [] engine = "tesseract" -> "5.0.0"

\* f"{engine}_{engine_version}_{pipeline_version}_{epoch_millis}"
version_key(result, millis) ==
  <<result.engine, "_", result.engine_version, "_", result.pipeline_version, "_", millis>>

\* the lists of at most n entries of S
ListsUpTo(S, n) == UNION {[1..k -> S] : k \in 0..n}

\* ------------------------------------------------------------------ texts

\* A str, as far as the quality checks read it: how many of its characters
\* are ' ', '\n', '\t', '\r' and how many are any other character.
CharClasses == {"other", "space", "newline", "tab", "cr"}
EmptyText == [c \in CharClasses |-> 0]
\* n characters of class c
Chars(c, n) == [EmptyText EXCEPT ![c] = n]
\* t + s
Concat(t, s) == [c \in CharClasses |-> t[c] + s[c]]
\* len(text)
len(text) == text.other + text.space + text.newline + text.tab + text.cr
\* text.replace(ch, '') for a character ch of class c
replace(text, c) == [text EXCEPT ![c] = 0]
\* max(a, b)
max(a, b) == IF a >= b THEN a ELSE b

\* (mutant) is_extraction_sufficient with `return non_ws_ratio >= 0.5`
is_extraction_sufficient_or_half(text, page_count) ==
  IF len(text) = 0 THEN FALSE
  ELSE IF len(text) < max(500, 50 * page_count) THEN FALSE
  ELSE 2 * text.other >= len(text)

\* quality.is_extraction_sufficient.  non_ws_ratio = len(text_without_ws) /
\* len(text) is a correctly rounded quotient of two integers below 2^53, so
\* non_ws_ratio > 0.5 exactly when 2 * len(text_without_ws) > len(text).
is_extraction_sufficient(text, page_count) ==
  IF len(text) = 0 THEN FALSE
  ELSE LET char_count == len(text)
           min_chars == max(500, 50 * page_count)
       IN IF char_count < min_chars THEN FALSE
          ELSE LET text_without_ws ==
                     replace(replace(replace(replace(text, "space"), "newline"), "tab"), "cr")
               IN IF len(text) = 0 THEN FALSE
                  ELSE 2 * len(text_without_ws) > len(text)

\* (mutant) is_doc_ocr_sufficient without the floor of 500 characters
is_doc_ocr_sufficient_per_page(text, page_count) ==
  IF len(text) = 0 THEN FALSE
  ELSE IF len(text) < 50 * page_count THEN FALSE
  ELSE 2 * text.other > len(text)

\* ocr.quality.is_doc_ocr_sufficient: the same body as is_extraction_sufficient
is_doc_ocr_sufficient(text, page_count) ==
  IF len(text) = 0 THEN FALSE
  ELSE LET char_count == len(text)
           min_chars == max(500, 50 * page_count)
       IN IF char_count < min_chars THEN FALSE
          ELSE LET text_without_ws ==
                     replace(replace(replace(replace(text, "space"), "newline"), "tab"), "cr")
               IN IF len(text) = 0 THEN FALSE
                  ELSE 2 * len(text_without_ws) > len(text)

\* ----------------------------------------------------------------- floats

\* Natural numbers of any size, as little-endian sequences of 14-bit limbs
\* without leading zero limbs (a double's significand has 53 bits).
LimbBits == 14
Base == 16384

RECURSIVE Trim(_)
Trim(a) ==
  IF a = <<>> THEN <<>>
  ELSE IF a[Len(a)] = 0 THEN Trim(SubSeq(a, 1, Len(a) - 1)) ELSE a

RECURSIVE NatOf(_)
NatOf(n) == IF n = 0 THEN <<>> ELSE <<n % Base>> \o NatOf(n \div Base)

RECURSIVE NatAddCarry(_, _, _)
NatAddCarry(a, b, c) ==
  IF a = <<>> /\ b = <<>> THEN NatOf(c)
  ELSE LET t == (IF a = <<>> THEN 0 ELSE a[1]) + (IF b = <<>> THEN 0 ELSE b[1]) + c
       IN <<t % Base>> \o NatAddCarry(IF a = <<>> THEN <<>> ELSE Tail(a),
                                      IF b = <<>> THEN <<>> ELSE Tail(b), t \div Base)
NatAdd(a, b) == NatAddCarry(a, b, 0)

\* a - b for a >= b
RECURSIVE NatSubBorrow(_, _, _)
NatSubBorrow(a, b, c) ==
  IF a = <<>> THEN <<>>
  ELSE LET t == a[1] - (IF b = <<>> THEN 0 ELSE b[1]) - c
       IN <<(t + Base) % Base>>
          \o NatSubBorrow(Tail(a), IF b = <<>> THEN <<>> ELSE Tail(b),
                          IF t < 0 THEN 1 ELSE 0)
NatSub(a, b) == Trim(NatSubBorrow(a, b, 0))

\* -1, 0 or 1 as a < b, a = b or a > b
RECURSIVE NatCmpFrom(_, _, _)
NatCmpFrom(a, b, i) ==
  IF i = 0 THEN 0
  ELSE IF a[i] < b[i] THEN -1
  ELSE IF a[i] > b[i] THEN 1
  ELSE NatCmpFrom(a, b, i - 1)
NatCmp(a, b) ==
  IF Len(a) < Len(b) THEN -1
  ELSE IF Len(a) > Len(b) THEN 1
  ELSE NatCmpFrom(a, b, Len(a))

\* a * k + c for k, c < Base
RECURSIVE NatMulSmall(_, _, _)
NatMulSmall(a, k, c) ==
  IF a = <<>> THEN NatOf(c)
  ELSE LET t == a[1] * k + c
       IN <<t % Base>> \o NatMulSmall(Tail(a), k, t \div Base)

\* quotient and remainder of a by n, 0 < n < Base (quotient untrimmed)
RECURSIVE NatDivRem(_, _)
NatDivRem(a, n) ==
  IF a = <<>> THEN [q |-> <<>>, r |-> 0]
  ELSE LET hi == NatDivRem(Tail(a), n)
           cur == hi.r * Base + a[1]
       IN [q |-> <<cur \div n>> \o hi.q, r |-> cur % n]
NatDiv(a, n) == Trim(NatDivRem(a, n).q)

RECURSIVE Pow2(_)
Pow2(d) == IF d = 0 THEN 1 ELSE 2 * Pow2(d - 1)

\* a * 2^d
RECURSIVE NatShl(_, _)
NatShl(a, d) ==
  IF a = <<>> THEN <<>>
  ELSE IF d >= LimbBits THEN <<0>> \o NatShl(a, d - LimbBits)
  ELSE Trim(NatMulSmall(a, Pow2(d), 0))

\* floor(a / 2^d)
RECURSIVE NatShr(_, _)
NatShr(a, d) ==
  IF a = <<>> THEN <<>>
  ELSE IF d >= LimbBits THEN NatShr(Tail(a), d - LimbBits)
  ELSE NatDiv(a, Pow2(d))

RECURSIVE SmallBits(_)
SmallBits(n) == IF n = 0 THEN 0 ELSE 1 + SmallBits(n \div 2)
\* number of bits of a
BitLen(a) == IF a = <<>> THEN 0 ELSE LimbBits * (Len(a) - 1) + SmallBits(a[Len(a)])

\* A finite IEEE 754 double: sign, 53-bit significand m and exponent e of
\* its last bit (value m * 2^e); zero has the empty significand.
\* Subnormals and overflow are out of reach of confidences and their sums.
Double(neg, m, e) == [neg |-> neg, m |-> m, e |-> e]
Zero == Double(FALSE, <<>>, 0)

\* a / 2^k rounded to nearest, ties to even, given q = floor(a / 2^k);
\* sticky says that the exact value has further nonzero bits below a.
\* The remainder is compared with 2^(k-1): q is incremented when it is
\* larger, or equal with q odd or sticky set.
RoundQuotient(q, a, k, sticky) ==
  LET half == NatCmp(NatSub(a, NatShl(q, k)), NatShl(<<1>>, k - 1))
      odd == q[1] % 2 = 1
  IN IF half + (IF sticky \/ odd THEN 1 ELSE 0) >= 1 THEN NatAdd(q, <<1>>) ELSE q

\* a / 2^k rounded to nearest, ties to even, for a of more than k bits
RoundShr(a, k, sticky) == RoundQuotient(NatShr(a, k), a, k, sticky)

\* the double of significand q, which has 53 bits, or 54 after a carry out
\* of the rounding
Normalised(neg, q, e) ==
  IF BitLen(q) > 53 THEN Double(neg, NatShr(q, 1), e + 1) ELSE Double(neg, q, e)

\* the double nearest to (-1)^neg * a * 2^e for a # 0 of n bits
RoundedBits(neg, a, e, sticky, n) ==
  IF n <= 53 THEN Double(neg, NatShl(a, 53 - n), e - (53 - n))
  ELSE Normalised(neg, RoundShr(a, n - 53, sticky), e + (n - 53))

\* the double nearest to (-1)^neg * a * 2^e (ties to even)
Rounded(neg, a, e, sticky) ==
  IF a = <<>> THEN Zero ELSE RoundedBits(neg, a, e, sticky, BitLen(a))

\* x + y for the significands a of x and b of y aligned at exponent e: the
\* sum of the magnitudes under a common sign, their difference under the
\* sign of the larger otherwise
fadd_aligned(x, y, a, b, e) ==
  Rounded(IF x.neg = y.neg \/ NatCmp(a, b) >= 0 THEN x.neg ELSE y.neg,
          IF x.neg = y.neg THEN NatAdd(a, b)
          ELSE IF NatCmp(a, b) >= 0 THEN NatSub(a, b) ELSE NatSub(b, a),
          e, FALSE)

\* the smaller of two exponents
min_e(x, y) == IF x.e <= y.e THEN x.e ELSE y.e

\* x + y
fadd(x, y) ==
  IF x.m = <<>> THEN y
  ELSE IF y.m = <<>> THEN x
  ELSE fadd_aligned(x, y, NatShl(x.m, x.e - min_e(x, y)),
                    NatShl(y.m, y.e - min_e(x, y)), min_e(x, y))

\* x - y
fsub(x, y) == fadd(x, [y EXCEPT !.neg = ~y.neg])

\* -1, 0 or 1 as |x| < |y|, |x| = |y| or |x| > |y|
fcmp_abs(x, y) ==
  IF x.m = <<>> \/ y.m = <<>>
  THEN (IF x.m = y.m THEN 0 ELSE IF x.m = <<>> THEN -1 ELSE 1)
  ELSE IF x.e < y.e THEN -1
  ELSE IF x.e > y.e THEN 1
  ELSE NatCmp(x.m, y.m)

\* x < y
flt(x, y) ==
  LET xn == x.neg /\ x.m # <<>>
      yn == y.neg /\ y.m # <<>>
  IN IF xn /\ ~yn THEN TRUE
     ELSE IF ~xn /\ yn THEN FALSE
     ELSE fcmp_abs(x, y) = (IF xn THEN 1 ELSE -1)

\* the double nearest to (-1)^neg * (d.q + d.r / n) * 2^e for a quotient
\* d.q and remainder d.r of a division by n
RoundedQuotient(neg, d, e) == Rounded(neg, Trim(d.q), e, d.r # 0)

\* x / n for an int n, 0 < n < Base (float(n) is exact)
fdiv_int(x, n) ==
  IF x.m = <<>> THEN Zero
  ELSE RoundedQuotient(x.neg, NatDivRem(NatShl(x.m, 2 * LimbBits), n),
                       x.e - 2 * LimbBits)

\* the double of the decimal literal p / q, 0 < q < Base (0.6 is 6 / 10)
Decimal(p, q) ==
  RoundedQuotient(FALSE, NatDivRem(NatShl(NatOf(p), 6 * LimbBits), q),
                  -(6 * LimbBits))

\* sum() up to CPython 3.11: the floats added one after the other
RECURSIVE sum_sequential(_, _)
sum_sequential(floats, n) ==
  IF n = 0 THEN Zero ELSE fadd(sum_sequential(floats, n - 1), floats[n])

\* one step of Neumaier's compensated summation, t being total.hi + x: the
\* new running sum is t, and the rounding error of t, (big - t) + small for
\* the larger and the smaller of total.hi and x, is added to the compensation
cs_step(total, x, t) ==
  [hi |-> t,
   lo |-> fadd(total.lo,
               fadd(fsub(IF fcmp_abs(total.hi, x) >= 0 THEN total.hi ELSE x, t),
                    IF fcmp_abs(total.hi, x) >= 0 THEN x ELSE total.hi))]

\* sum() from CPython 3.12 over the first n floats: hi is the running sum
\* and lo the running compensation
cs_next(total, x) == cs_step(total, x, fadd(total.hi, x))
RECURSIVE cs_add(_, _)
cs_add(floats, n) ==
  IF n = 0 THEN [hi |-> Zero, lo |-> Zero]
  ELSE cs_next(cs_add(floats, n - 1), floats[n])

\* the compensated sum: the running sum plus the compensation
cs_total(total) == fadd(total.hi, total.lo)
sum_compensated(floats) == cs_total(cs_add(floats, Len(floats)))

\* sum(floats) as the interpreter in use computes it
sum_floats(floats) ==
  IF call.compensated_sum THEN sum_compensated(floats)
  ELSE sum_sequential(floats, Len(floats))

\* ------------------------------------------------------------ page quality

\* what the classifier's patterns can find in a text: a match of one of the
\* page number, caption, section header or footnote marker patterns on the
\* trimmed text, and a digit as its first character
Features == {"page_number", "caption", "section_header", "footnote_marker", "digit"}

\* what an OCR engine returns for one block of a page: its text, its
\* confidence if any, its bbox [x, y, width, height] if any, and the
\* features of the text
OcrBlock(text, confidence, bbox, features) ==
  [text |-> text, confidence |-> confidence, bbox |-> bbox, features |-> features]

\* sum(len(b.text) for b in blocks) over the first n blocks
RECURSIVE blocks_char_count(_, _)
blocks_char_count(blocks, n) ==
  IF n = 0 THEN 0 ELSE blocks_char_count(blocks, n - 1) + len(blocks[n].text)

\* [b.confidence for b in blocks if b.confidence is not None], first n blocks
RECURSIVE confidences_of(_, _)
confidences_of(blocks, n) ==
  IF n = 0 THEN <<>>
  ELSE confidences_of(blocks, n - 1) \o blocks[n].confidence

\* ocr.quality.is_page_quality_ok
is_page_quality_ok(blocks, min_conf, min_chars) ==
  IF blocks = <<>> THEN FALSE
  ELSE LET char_count == blocks_char_count(blocks, Len(blocks)) IN
       IF char_count < min_chars THEN FALSE
       ELSE LET confidences == confidences_of(blocks, Len(blocks)) IN
            IF confidences # <<>>
            THEN LET avg_conf == fdiv_int(sum_floats(confidences), Len(confidences))
                 IN IF flt(avg_conf, min_conf) THEN FALSE ELSE TRUE
            ELSE TRUE

\* config.OCR_MIN_CONFIDENCE and config.OCR_MIN_CHARS_PER_PAGE (defaults)
OCR_MIN_CONFIDENCE == Decimal(6, 10)
OCR_MIN_CHARS_PER_PAGE == 50

\* ------------------------------------------------------------------- PDFs

\* One page of a PDF file, as far as the worker reads it: the text of its
\* text layer (page.get_text()) and the blocks the OCR engines find on its
\* rendering: PaddleOCR at the initial DPI, PaddleOCR at the rerun DPI and
\* Tesseract at the rerun DPI.  A PDF is the sequence of its pages.
Page(text, paddle_initial, paddle_rerun, tesseract) ==
  [text |-> text, paddle_initial |-> paddle_initial,
   paddle_rerun |-> paddle_rerun, tesseract |-> tesseract]

\* models.PageBlock (type, text, confidence and bbox)
PageBlock(type, text, confidence, bbox) ==
  [type |-> type, text |-> text, confidence |-> confidence, bbox |-> bbox]

\* models.OcrPage (page number and blocks)
OcrPage(page, blocks) == [page |-> page, blocks |-> blocks]

\* models.OcrMetrics (runtime_ms left out)
OcrMetrics(total_pages, method, char_count, avg_conf, dpi_initial, dpi_rerun, bad_pages, fallback_pages) ==
  [total_pages |-> total_pages, method |-> method, char_count |-> char_count,
   avg_conf |-> avg_conf, dpi_initial |-> dpi_initial, dpi_rerun |-> dpi_rerun,
   bad_pages |-> bad_pages, fallback_pages |-> fallback_pages]

\* models.OcrVersion (created_at and the legacy model_name / model_version
\* left out)
OcrVersion(engine, version, pipeline_version, pages, doc_text, metrics, warnings) ==
  [engine |-> engine, engine_version |-> version,
   pipeline_version |-> pipeline_version, pages |-> pages, doc_text |-> doc_text,
   metrics |-> metrics, warnings |-> warnings]

\* ------------------------------------------------------------ extraction

\* len(str(n)) for a page number
digits(n) == IF n < 10 THEN 1 ELSE IF n < 100 THEN 2 ELSE 3

\* f"\n\n--- Page {n} ---\n\n": four newlines, three spaces, and the
\* dashes, the word and the number
PageSeparator(n) ==
  Concat(Concat(Chars("newline", 4), Chars("space", 3)), Chars("other", 10 + digits(n)))

\* ''.join(all_text_parts) over the first n pages: each page's separator,
\* then its text
RECURSIVE joined_text(_, _)
joined_text(pdf, n) ==
  IF n = 0 THEN EmptyText
  ELSE Concat(joined_text(pdf, n - 1), Concat(PageSeparator(n), pdf[n].text))

\* total_chars over the first n pages: the page texts without separators
RECURSIVE total_chars(_, _)
total_chars(pdf, n) ==
  IF n = 0 THEN 0 ELSE total_chars(pdf, n - 1) + len(pdf[n].text)

\* text.strip(): the texts of the model hold no whitespace but spaces,
\* newlines, tabs and carriage returns, so what is left after stripping is
\* empty exactly when the text has no other character
strip_is_empty(text) == text.other = 0

\* the blocks of one page of the extractor: one paragraph holding the page
\* text if page_text.strip() is not empty, none otherwise
extracted_blocks(page_text) ==
  IF ~strip_is_empty(page_text)
  THEN <<PageBlock("paragraph", page_text, None, None)>>
  ELSE <<>>

\* the pages list of the extractor: one OcrPage per page_num of
\* range(len(doc)), numbered page_num + 1
extracted_pages(pdf) ==
  [i \in 1..Len(pdf) |->
     LET page_num == i - 1
     IN OcrPage(page_num + 1, extracted_blocks(pdf[page_num + 1].text))]

\* extractor.extract_text_from_pdf
extract_text_from_pdf(pdf) ==
  LET pages == extracted_pages(pdf)
  IN OcrVersion("pymupdf", engine_version("pymupdf"), "", pages,
                joined_text(pdf, Len(pdf)),
                OcrMetrics(Len(pages), "direct", total_chars(pdf, Len(pdf)),
                           None, None, None, None, None),
                <<>>)

\* the warning handle_extraction_job appends
InsufficientTextWarning(char_count) ==
  <<"Insufficient text extracted (", char_count, " chars). ",
    "Document likely scanned or image-based. Needs OCR processing.">>

\* (mutant) handle_extraction_job without result.warnings.append(...)
extraction_outcome_without_warning(extracted) ==
  LET result == [extracted EXCEPT !.pipeline_version = PIPELINE_VERSION]
      is_sufficient ==
        is_extraction_sufficient(result.doc_text, result.metrics.total_pages)
  IN [result |-> result,
      final_status |-> IF is_sufficient THEN "ready" ELSE "pending_ocr"]

\* handle_extraction_job from the extractor's result to the arguments of
\* complete_job: stamp the pipeline version, judge doc_text, choose the
\* final status and append the warning
extraction_outcome(extracted) ==
  LET result == [extracted EXCEPT !.pipeline_version = PIPELINE_VERSION]
      doc_text == result.doc_text
      is_sufficient == is_extraction_sufficient(doc_text, result.metrics.total_pages)
  IN IF is_sufficient
     THEN [result |-> result, final_status |-> "ready"]
     ELSE [result |-> [result EXCEPT !.warnings =
                         Append(@, InsufficientTextWarning(result.metrics.char_count))],
           final_status |-> "pending_ocr"]

\* ------------------------------------------------------------ OCR router

\* PositionThresholds (defaults) and RUNNING_HEADER_MAX_LENGTH
header_zone == Decimal(8, 100)
footer_zone == Decimal(92, 100)
footnote_zone == Decimal(80, 100)
center_tolerance == Decimal(15, 100)
RUNNING_HEADER_MAX_LENGTH == 80

\* float(n) for an int n, |n| < 2^53
float(n) == Rounded(n < 0, NatOf(IF n < 0 THEN -n ELSE n), 0, FALSE)

\* abs(x) and x > y
fabs(x) == [x EXCEPT !.neg = FALSE]
fgt(x, y) == flt(y, x)

\* A text as the classifier sees it: its characters and its features.
\* len(text.strip()): the block texts of the model have whitespace inside
\* only, unless they are nothing but whitespace
ClassifiedText(chars, features) == [chars |-> chars, features |-> features]
trimmed_len(text) == IF strip_is_empty(text.chars) THEN 0 ELSE len(text.chars)

\* classifier.get_block_position: None for all four values, or the four
\* values; bbox is [x, y, width, height] in whole page units
get_block_position(bbox, page_height, page_width) ==
  IF bbox = None \/ page_height <= 0 \/ page_width <= 0 THEN None
  ELSE LET x == float(bbox[1][1])
           y == float(bbox[1][2])
           w == float(bbox[1][3])
           h == float(bbox[1][4])
       IN Some([y_start |-> fdiv_int(y, page_height),
                y_end |-> fdiv_int(fadd(y, h), page_height),
                x_center |-> fdiv_int(fadd(x, fdiv_int(w, 2)), page_width),
                width_ratio |-> fdiv_int(w, page_width)])

\* classifier.is_page_number, is_caption, is_section_header,
\* is_footnote_marker
is_page_number(text) ==
  IF trimmed_len(text) > 20 THEN FALSE ELSE "page_number" \in text.features
is_caption(text) == "caption" \in text.features
is_section_header(text) ==
  IF trimmed_len(text) > 100 THEN FALSE ELSE "section_header" \in text.features
is_footnote_marker(text) == "footnote_marker" \in text.features

\* classifier.is_short_centered_text
is_short_centered_text(text, position) ==
  IF trimmed_len(text) > RUNNING_HEADER_MAX_LENGTH THEN FALSE
  ELSE IF position = None THEN FALSE
  ELSE LET is_centered ==
             flt(fabs(fsub(position[1].x_center, Decimal(5, 10))), center_tolerance)
           is_narrow == flt(position[1].width_ratio, Decimal(5, 10))
       IN is_centered /\ is_narrow

\* the position-based classification of classify_block for a known
\* position: the type returned from one of the three zones, or None when
\* the tests fall through
zone_type(text, position) ==
  IF flt(position.y_start, header_zone)
     /\ trimmed_len(text) < RUNNING_HEADER_MAX_LENGTH
  THEN Some("header")
  ELSE IF fgt(position.y_end, footer_zone)
          /\ trimmed_len(text) < 30 /\ is_page_number(text)
  THEN Some("page_number")
  ELSE IF fgt(position.y_end, footer_zone)
          /\ trimmed_len(text) < RUNNING_HEADER_MAX_LENGTH
  THEN Some("header")
  ELSE IF fgt(position.y_start, footnote_zone) /\ flt(position.y_end, footer_zone)
          /\ (is_footnote_marker(text) \/ "digit" \in text.features)
  THEN Some("footnote")
  ELSE None

\* classify_block after the position-based classification
centered_or_paragraph(text, position, by_zone) ==
  IF by_zone # None THEN by_zone[1]
  ELSE IF is_short_centered_text(text, position) /\ trimmed_len(text) < 60
  THEN "section_header"
  ELSE "paragraph"

\* (mutant) the test for centred short text placed before the zones
classify_position_centered_first(text, position) ==
  IF is_short_centered_text(text, position) /\ trimmed_len(text) < 60
  THEN "section_header"
  ELSE centered_or_paragraph(text, None,
                             IF position # None THEN zone_type(text, position[1]) ELSE None)

\* classify_block after the content-based classification
classify_position(text, position) ==
  centered_or_paragraph(text, position,
                        IF position # None THEN zone_type(text, position[1]) ELSE None)

\* classifier.classify_block
classify_block(text, bbox, page_height, page_width) ==
  IF trimmed_len(text) = 0 THEN "other"
  ELSE IF is_page_number(text) THEN "page_number"
  ELSE IF is_caption(text) THEN "caption"
  ELSE IF is_section_header(text) THEN "section_header"
  ELSE IF is_footnote_marker(text) THEN "footnote"
  ELSE classify_position(text, get_block_position(bbox, page_height, page_width))

\* classifier.is_core_content
is_core_content(block_type) ==
  block_type \in {"title", "section_header", "paragraph", "list"}

\* normalize_paddle_output / normalize_tesseract_output called with
\* page_height and page_width
normalize(blocks, page_height, page_width) ==
  [i \in DOMAIN blocks |->
     PageBlock(classify_block(ClassifiedText(blocks[i].text, blocks[i].features),
                              blocks[i].bbox, page_height, page_width),
               blocks[i].text, blocks[i].confidence, blocks[i].bbox)]

\* (mutant) the router passing the size of the rendered page
normalize_output_with_page_size(blocks) == normalize(blocks, 1000, 800)

\* normalize_paddle_output(result.blocks) / normalize_tesseract_output(
\* result.blocks): page_height and page_width keep their default 0
normalize_output(blocks) == normalize(blocks, 0, 0)

\* phase 1 over range(n): the pages whose PaddleOCR blocks at the initial
\* DPI fail the page check are appended to bad_page_nums
RECURSIVE bad_page_nums(_, _)
bad_page_nums(pdf, n) ==
  IF n = 0 THEN <<>>
  ELSE LET page_num == n - 1
           blocks == pdf[page_num + 1].paddle_initial
           is_ok == is_page_quality_ok(blocks, OCR_MIN_CONFIDENCE, OCR_MIN_CHARS_PER_PAGE)
       IN IF is_ok THEN bad_page_nums(pdf, n - 1)
          ELSE Append(bad_page_nums(pdf, n - 1), page_num)

\* (mutant) phase 2 appending every bad page to still_bad
still_bad_whatever_rerun(pdf, bad, k) == SubSeq(bad, 1, k)

\* phase 2 over the first k entries of bad_page_nums: the pages whose
\* PaddleOCR blocks at the rerun DPI fail the page check again are appended
\* to still_bad
RECURSIVE still_bad(_, _, _)
still_bad(pdf, bad, k) ==
  IF k = 0 THEN <<>>
  ELSE LET page_num == bad[k]
           blocks == pdf[page_num + 1].paddle_rerun
           is_ok == is_page_quality_ok(blocks, OCR_MIN_CONFIDENCE, OCR_MIN_CHARS_PER_PAGE)
       IN IF is_ok THEN still_bad(pdf, bad, k - 1)
          ELSE Append(still_bad(pdf, bad, k - 1), page_num)

\* phase 3: every page of still_bad is appended to fallback_page_nums
fallback_page_nums(still) == [i \in DOMAIN still |-> still[i]]

\* x in xs
In(x, xs) == \E i \in DOMAIN xs : xs[i] = x

\* router.PageResult
PageResult(page_num, blocks, method, dpi_used, needed_rerun, used_fallback) ==
  [page_num |-> page_num, blocks |-> blocks, method |-> method, dpi_used |-> dpi_used,
   needed_rerun |-> needed_rerun, used_fallback |-> used_fallback]

\* config.OCR_DPI_INITIAL and config.OCR_DPI_RERUN (defaults), the
\* dpi_initial and dpi_rerun of process_document_ocr
OCR_DPI_INITIAL == 200
OCR_DPI_RERUN == 300

\* one iteration of phase 1 on page_results: the page's result if its
\* blocks pass the page check, the placeholder None otherwise
initial_result(page_results, page_num, blocks, is_ok) ==
  IF is_ok
  THEN Append(page_results,
              Some(PageResult(page_num, blocks, "paddle", OCR_DPI_INITIAL, FALSE, FALSE)))
  ELSE Append(page_results, None)

\* page_results after phase 1 over range(n)
RECURSIVE page_results_initial(_, _)
page_results_initial(pdf, n) ==
  IF n = 0 THEN <<>>
  ELSE initial_result(page_results_initial(pdf, n - 1), n - 1, pdf[n].paddle_initial,
                      is_page_quality_ok(pdf[n].paddle_initial,
                                         OCR_MIN_CONFIDENCE, OCR_MIN_CHARS_PER_PAGE))

\* (mutant) phase 2 recording dpi_initial and needed_rerun=False, as phase 1
rerun_result_as_initial(page_results, page_num, blocks, is_ok) ==
  IF is_ok
  THEN [page_results EXCEPT ![page_num + 1] =
          Some(PageResult(page_num, blocks, "paddle", OCR_DPI_INITIAL, FALSE, FALSE))]
  ELSE page_results

\* one iteration of phase 2 on page_results: page_results[page_num] is
\* assigned if the rerun passes the page check
rerun_result(page_results, page_num, blocks, is_ok) ==
  IF is_ok
  THEN [page_results EXCEPT ![page_num + 1] =
          Some(PageResult(page_num, blocks, "paddle", OCR_DPI_RERUN, TRUE, FALSE))]
  ELSE page_results

\* page_results after phase 2 over the first k entries of bad_page_nums
RECURSIVE page_results_rerun(_, _, _, _)
page_results_rerun(pdf, page_results, bad, k) ==
  IF k = 0 THEN page_results
  ELSE rerun_result(page_results_rerun(pdf, page_results, bad, k - 1), bad[k],
                    pdf[bad[k] + 1].paddle_rerun,
                    is_page_quality_ok(pdf[bad[k] + 1].paddle_rerun,
                                       OCR_MIN_CONFIDENCE, OCR_MIN_CHARS_PER_PAGE))

\* (mutant) phase 3 without the assignment to page_results[page_num]
fallback_result_not_stored(page_results, page_num, blocks) == page_results

\* (mutant) phase 3 with the page check of the other phases: blocks that
\* fail it are dropped
fallback_result_checked(page_results, page_num, blocks) ==
  [page_results EXCEPT ![page_num + 1] =
     Some(PageResult(page_num,
                     IF is_page_quality_ok(blocks, OCR_MIN_CONFIDENCE, OCR_MIN_CHARS_PER_PAGE)
                     THEN blocks ELSE <<>>,
                     "tesseract", OCR_DPI_RERUN, TRUE, TRUE))]

\* one iteration of phase 3 on page_results
fallback_result(page_results, page_num, blocks) ==
  [page_results EXCEPT ![page_num + 1] =
     Some(PageResult(page_num, blocks, "tesseract", OCR_DPI_RERUN, TRUE, TRUE))]

\* page_results after phase 3 over the first k entries of still_bad
RECURSIVE page_results_fallback(_, _, _, _)
page_results_fallback(pdf, page_results, still, k) ==
  IF k = 0 THEN page_results
  ELSE fallback_result(page_results_fallback(pdf, page_results, still, k - 1), still[k],
                       pdf[still[k] + 1].tesseract)

\* an exception of class e leaves the function
Raised(e) == [raised |-> e]
is_raised(r) == "raised" \in DOMAIN r

\* the normalisation loop: one OcrPage per entry of page_results, numbered
\* result.page_num + 1
ocr_pages_of(page_results) ==
  [i \in DOMAIN page_results |->
     LET result == page_results[i][1]
     IN OcrPage(result.page_num + 1, normalize_output(result.blocks))]

\* (mutant) the engine choice with the test of len(fallback_page_nums)
\* against page_count first
ocr_engine_all_fallback_first(fallback, page_count) ==
  IF Len(fallback) = page_count
  THEN [engine |-> "tesseract", engine_version |-> engine_version("tesseract"),
        method |-> "tesseract"]
  ELSE IF fallback = <<>>
  THEN [engine |-> "paddle", engine_version |-> engine_version("paddle"),
        method |-> "paddle"]
  ELSE [engine |-> "hybrid",
        engine_version |-> "paddle" \o engine_version("paddle") \o "+tess"
                             \o engine_version("tesseract"),
        method |-> "hybrid"]

\* (mutant) the engine choice with `elif fallback_page_nums:`
ocr_engine_any_fallback(fallback, page_count) ==
  IF fallback = <<>>
  THEN [engine |-> "paddle", engine_version |-> engine_version("paddle"),
        method |-> "paddle"]
  ELSE [engine |-> "tesseract", engine_version |-> engine_version("tesseract"),
        method |-> "tesseract"]

\* engine, engine_version and method from fallback_page_nums
ocr_engine(fallback, page_count) ==
  IF fallback = <<>>
  THEN [engine |-> "paddle", engine_version |-> engine_version("paddle"),
        method |-> "paddle"]
  ELSE IF Len(fallback) = page_count
  THEN [engine |-> "tesseract", engine_version |-> engine_version("tesseract"),
        method |-> "tesseract"]
  ELSE [engine |-> "hybrid",
        engine_version |-> "paddle" \o engine_version("paddle") \o "+tess"
                             \o engine_version("tesseract"),
        method |-> "hybrid"]

\* char_count of build_ocr_version over the first n pages
RECURSIVE pages_char_count(_, _)
pages_char_count(pages, n) ==
  IF n = 0 THEN 0
  ELSE pages_char_count(pages, n - 1)
       + blocks_char_count(pages[n].blocks, Len(pages[n].blocks))

\* the texts of the core-content blocks among the first n blocks
RECURSIVE core_texts(_, _)
core_texts(blocks, n) ==
  IF n = 0 THEN <<>>
  ELSE IF is_core_content(blocks[n].type)
       THEN Append(core_texts(blocks, n - 1), blocks[n].text)
       ELSE core_texts(blocks, n - 1)

\* sep.join(parts) over the first n parts, sep being k newlines
RECURSIVE join(_, _, _)
join(k, parts, n) ==
  IF n = 0 THEN EmptyText
  ELSE IF n = 1 THEN parts[1]
  ELSE Concat(join(k, parts, n - 1), Concat(Chars("newline", k), parts[n]))

\* doc_text_parts of build_ocr_version over the first n pages
RECURSIVE doc_text_parts(_, _)
doc_text_parts(pages, n) ==
  IF n = 0 THEN <<>>
  ELSE LET page_blocks == core_texts(pages[n].blocks, Len(pages[n].blocks))
       IN IF page_blocks # <<>>
          THEN Append(doc_text_parts(pages, n - 1),
                      join(1, page_blocks, Len(page_blocks)))
          ELSE doc_text_parts(pages, n - 1)

\* all_confidences of build_ocr_version over the first n pages
RECURSIVE all_confidences(_, _)
all_confidences(pages, n) ==
  IF n = 0 THEN <<>>
  ELSE all_confidences(pages, n - 1) \o confidences_of(pages[n].blocks, Len(pages[n].blocks))

\* sum(cs) / len(cs) if cs else None
mean_or_none(cs) ==
  IF cs # <<>> THEN Some(fdiv_int(sum_floats(cs), Len(cs))) ELSE None

\* the mean confidence of the first n pages, each taken by itself
RECURSIVE page_means(_, _)
page_means(pages, n) ==
  IF n = 0 THEN <<>>
  ELSE page_means(pages, n - 1)
       \o mean_or_none(confidences_of(pages[n].blocks, Len(pages[n].blocks)))

\* (mutant) avg_conf as the mean of the pages' mean confidences
avg_conf_of_page_means(pages) == mean_or_none(page_means(pages, Len(pages)))

\* avg_conf of build_ocr_version
avg_conf_of(pages) == mean_or_none(all_confidences(pages, Len(pages)))

\* normalize.build_ocr_version
build_ocr_version(pages, engine, version, pipeline_version, method, dpi_initial, dpi_rerun, bad_pages, fallback_pages, warnings) ==
  LET parts == doc_text_parts(pages, Len(pages))
  IN OcrVersion(engine, version, pipeline_version, pages, join(2, parts, Len(parts)),
                OcrMetrics(Len(pages), method, pages_char_count(pages, Len(pages)),
                           avg_conf_of(pages), dpi_initial, dpi_rerun,
                           bad_pages, fallback_pages),
                warnings)

\* (mutant) build_ocr_version called with dpi_rerun=dpi_rerun
built_version_with_rerun_dpi(ocr_pages, chosen, bad, fallback) ==
  build_ocr_version(ocr_pages, chosen.engine, chosen.engine_version,
                    PIPELINE_VERSION, chosen.method, Some(OCR_DPI_INITIAL),
                    Some(OCR_DPI_RERUN), bad, fallback, <<>>)

\* process_document_ocr from the engine choice on: the OcrVersion is built
\* from the normalised pages
built_version(ocr_pages, chosen, bad, fallback) ==
  build_ocr_version(ocr_pages, chosen.engine, chosen.engine_version,
                    PIPELINE_VERSION, chosen.method, Some(OCR_DPI_INITIAL),
                    IF bad # <<>> THEN Some(OCR_DPI_RERUN) ELSE None,
                    bad, fallback, <<>>)

\* process_document_ocr after the three phases: the pages are normalised,
\* the engine is chosen and the OcrVersion is built; result.method on a
\* placeholder that is still in page_results raises AttributeError
ocr_version_of(pdf, page_results, bad, fallback) ==
  IF \E i \in DOMAIN page_results : page_results[i] = None
  THEN Raised("AttributeError")
  ELSE built_version(ocr_pages_of(page_results), ocr_engine(fallback, Len(pdf)),
                     bad, fallback)

\* phases 2 and 3 on page_results, then the rest of process_document_ocr
fallback_phase(pdf, bad, still) ==
  ocr_version_of(pdf,
                 page_results_fallback(
                   pdf,
                   page_results_rerun(pdf, page_results_initial(pdf, Len(pdf)),
                                      bad, Len(bad)),
                   still, Len(still)),
                 bad, fallback_page_nums(still))

\* process_document_ocr after phase 1: phases 2 and 3 run when their input
\* lists are not empty
rerun_and_fallback(pdf, bad) ==
  fallback_phase(pdf, bad, IF bad # <<>> THEN still_bad(pdf, bad, Len(bad)) ELSE <<>>)

\* router.process_document_ocr
process_document_ocr(pdf) == rerun_and_fallback(pdf, bad_page_nums(pdf, Len(pdf)))

\* ----------------------------------------------------------- OCR handler

\* the warning handle_ocr_job appends
InsufficientOcrWarning(char_count) ==
  <<"OCR produced insufficient text (", char_count, " chars). ",
    "Document may be damaged, very low quality, or in an unsupported format.">>

\* (mutant) handle_ocr_job without result.warnings.append(...)
ocr_outcome_without_warning(processed) ==
  LET result == [processed EXCEPT !.pipeline_version = PIPELINE_VERSION]
      is_sufficient == is_doc_ocr_sufficient(result.doc_text, result.metrics.total_pages)
  IN [result |-> result,
      final_status |-> IF is_sufficient THEN "ready" ELSE "ocr_failed"]

\* handle_ocr_job from the router's result to the arguments of complete_job
ocr_outcome(processed) ==
  LET result == [processed EXCEPT !.pipeline_version = PIPELINE_VERSION]
      doc_text == result.doc_text
      is_sufficient == is_doc_ocr_sufficient(doc_text, result.metrics.total_pages)
  IN IF is_sufficient
     THEN [result |-> result, final_status |-> "ready"]
     ELSE [result |-> [result EXCEPT !.warnings =
                         Append(@, InsufficientOcrWarning(result.metrics.char_count))],
           final_status |-> "ocr_failed"]

\* ------------------------------------------------------------ stored PDFs

\* The PDF the storage holds for document d.  It has d pages.  Odd documents
\* are clean (600 characters of text layer on a page, and as many in the
\* paragraph an OCR engine reads), even ones poor (10 characters of junk in
\* the text layer, 60 in the paragraph).  PaddleOCR reads every page of
\* documents 1, 4, ... with good confidence; on documents 2, 5, ... it
\* fails on every page at both DPIs; on documents 3, 6, ... on every page
\* but the first.
stored_pdf(d) ==
  [p \in 1..d |->
     LET paragraph(confidence) ==
           <<OcrBlock(Chars("other", IF d % 2 = 1 THEN 600 ELSE 60),
                      Some(confidence), None, {})>>
         good == paragraph(Decimal(93, 100))
         poor == paragraph(Decimal(41, 100))
         paddle == IF d % 3 = 1 \/ (d % 3 = 0 /\ p = 1) THEN good ELSE poor
     IN Page(Chars("other", IF d % 2 = 1 THEN 600 ELSE 10), paddle, paddle, good)]

\* f"Processing failed after {new_attempts} attempts: {error_msg}"
error_message(new_attempts, error_msg) ==
  <<"Processing failed after ", new_attempts, " attempts: ", error_msg>>

\* {**current_versions, version_key: result.dict()}
merge_versions(current_versions, key, result) ==
  [k \in (DOMAIN current_versions) \cup {key} |->
     IF k = key THEN result ELSE current_versions[k]]

\* what claim_job and main() keep of a fetched job row: the fields they read
\* later (id, document_id, job_type) and the attempts counter of the row
DocumentJob(row) ==
  [id |-> row.id, document_id |-> row.document_id, job_type |-> row.job_type,
   attempts |-> row.attempts]

\* local variables of one worker outside any call
Idle == [pc |-> "poll", job_data |-> None, job |-> None, result |-> None,
         final_status |-> "", version_key |-> None, current_versions |-> <<>>,
         error_msg |-> None, site |-> "", new_attempts |-> 0,
         is_final_failure |-> FALSE]

\* ------------------------------------------------------------ initial state

\* a job row as the enqueuer creates it: pending, unlocked
NewJob(id, document_id, job_type, priority, attempts, max_attempts) ==
  [id |-> id, document_id |-> document_id, job_type |-> job_type,
   status |-> "pending", priority |-> priority, attempts |-> attempts,
   max_attempts |-> max_attempts, locked_at |-> Null, locked_by |-> Null,
   last_error |-> None, result |-> None, created_at |-> id]

NewDoc(id) ==
  [id |-> id, status |-> "uploaded", ocr_versions |-> <<>>, page_count |-> Null,
   error_message |-> None]

\* The rows the enqueuer has created: every job is new (attempts 0) with
\* default priority.  The first job belongs to document 1 and may be retried
\* (max_attempts up to M); later jobs belong to any document and get a
\* single attempt.
JobRows(id, M) ==
  {NewJob(id, d, t, 0, 0, m) :
     d \in 1..(IF id < NumDocs THEN id ELSE NumDocs),
     t \in JobTypes,
     m \in 1..(IF id = 1 THEN M ELSE 1)}

\* the job tables whose row of job j is one of rows[j]
Tables(rows) ==
  {f \in [JobIds -> UNION {rows[j] : j \in JobIds}] : \A j \in JobIds : f[j] \in rows[j]}

\* Rows whose attempts counter is anywhere in 0..max_attempts at creation.
CreatedRows(id) ==
  {r \in {NewJob(id, d, t, 0, a, m) :
            d \in 1..(IF id < NumDocs THEN id ELSE NumDocs),
            t \in JobTypes,
            m \in 1..(IF id = 1 THEN MaxAttemptsFaulty ELSE 1),
            a \in 0..MaxAttemptsFaulty} : r.attempts <= r.max_attempts}

\* no pure function is being called on its own while the workers run
\* (the interpreter's sum() is the sequential one)
NoCall == [fn |-> "none", compensated_sum |-> FALSE]

\* the state before any worker has polled, over the job table `table`
Start(table) ==
  /\ jobs = table
  /\ docs = [d \in DocIds |-> NewDoc(d)]
  /\ worker = [w \in Workers |-> Idle]
  /\ now = 1
  /\ failures = [j \in JobIds |-> 0]
  /\ call = NoCall

Init ==
  \E table \in Tables([j \in JobIds |-> JobRows(j, MaxAttemptsFaulty)]) : Start(table)
InitNoFault ==
  \E table \in Tables([j \in JobIds |-> JobRows(j, MaxAttempts)]) : Start(table)
\* every job gets a single attempt
InitSingle ==
  \E table \in Tables([j \in JobIds |-> JobRows(j, 1)]) : Start(table)
InitCreated ==
  \E table \in Tables([j \in JobIds |-> CreatedRows(j)]) : Start(table)

\* attempts of job id when the workers start: the first job is new, each
\* later job has failed once more than the one before it
InitialAttempts(id) == id - 1

\* Pending rows as fail_job leaves them: attempts below max_attempts.
PendingRows(id) ==
  {NewJob(id, d, t, 0, InitialAttempts(id), m) :
     d \in 1..(IF id < NumDocs THEN id ELSE NumDocs),
     t \in JobTypes,
     m \in (InitialAttempts(id) + 1)..(IF InitialAttempts(id) + 1 > MaxAttemptsRetried
                                       THEN InitialAttempts(id) + 1
                                       ELSE MaxAttemptsRetried)}

InitPending ==
  \E table \in Tables([j \in JobIds |-> PendingRows(j)]) : Start(table)

\* Rows the enqueuer has created with any priority, in any order of creation
\* (created_at may tie): each job has its own document; the first job, of
\* any type, may be retried once, later jobs are OCR jobs with one attempt.
PriorityRows(id) ==
  {[NewJob(id, IF id < NumDocs THEN id ELSE NumDocs, t, p, 0, IF id = 1 THEN 2 ELSE 1)
      EXCEPT !.created_at = c] :
     t \in (IF id = 1 THEN JobTypes ELSE {"ocr"}),
     p \in 0..MaxPriority,
     c \in JobIds}

InitPriority ==
  \E table \in Tables([j \in JobIds |-> PriorityRows(j)]) : Start(table)

\* ------------------------------------------------------------------ clock

Tick ==
  /\ now < MaxClock
  /\ now' = now + 1
  /\ UNCHANGED <<call, jobs, docs, worker, failures>>

\* -------------------------------------------------------------- claim_job

\* rows matching .eq('status','pending') and the optional job_type filter
\* (an empty or missing list means no filter)
pending_jobs(job_types) ==
  {j \in JobIds : /\ jobs[j].status = "pending"
                  /\ (job_types = {} \/ jobs[j].job_type \in job_types)}

\* (mutant) .order('created_at', desc=False) alone
select_candidate_oldest(job_types) ==
  {j \in pending_jobs(job_types) :
     \A k \in pending_jobs(job_types) : jobs[j].created_at <= jobs[k].created_at}

\* .order('priority', desc=True).order('created_at', desc=False).limit(1)
select_candidate(job_types) ==
  {j \in pending_jobs(job_types) :
     \A k \in pending_jobs(job_types) :
        \/ jobs[k].priority < jobs[j].priority
        \/ (jobs[k].priority = jobs[j].priority /\ jobs[j].created_at <= jobs[k].created_at)}

\* (mutant) the update without .eq('status', 'pending')
claim_matches_any_status(id) == id \in JobIds

\* (mutant) the update with .in_('status', ['pending', 'processing'])
claim_matches_active(id) == jobs[id].status \in {"pending", "processing"}

\* the conditional update .eq('id', id).eq('status', 'pending')
claim_matches(id) == jobs[id].status = "pending"

\* (mutant) the claim update without 'locked_at': now
claimed_row_without_locked_at(row, worker_id) ==
  [row EXCEPT !.status = "processing", !.locked_by = worker_id]

\* the columns the claim update sets
claimed_row(row, worker_id) ==
  [row EXCEPT !.status = "processing", !.locked_at = Stamp, !.locked_by = worker_id]

\* main() calls claim_job(WORKER_ID, job_types=None): select the candidate.
\* With no pending row claim_job returns None and the loop sleeps and polls
\* again.
claim_job_select(w) ==
  /\ worker[w].pc = "poll"
  /\ \E j \in select_candidate({}) :
       worker' = [worker EXCEPT ![w] = [Idle EXCEPT !.pc = "claim_update",
                                                    !.job_data = Some(DocumentJob(jobs[j]))]]
  /\ UNCHANGED <<call, jobs, docs, now, failures>>

\* a caller passes a list of job types: claim_job(worker_id, job_types)
claim_job_select_types(w, job_types) ==
  /\ worker[w].pc = "poll"
  /\ \E j \in select_candidate(job_types) :
       worker' = [worker EXCEPT ![w] = [Idle EXCEPT !.pc = "claim_update",
                                                    !.job_data = Some(DocumentJob(jobs[j]))]]
  /\ UNCHANGED <<call, jobs, docs, now, failures>>

\* (mutant) claim_job without the check of claim_response.data: it goes on
\* to the documents update with the candidate it selected
claim_lost_goes_on(w) ==
  [worker[w] EXCEPT !.pc = "claim_doc", !.job = worker[w].job_data]

\* `if not claim_response.data ...: return None`: back in main(), which
\* sleeps and polls again
claim_lost(w) == [worker[w] EXCEPT !.pc = "poll"]

\* the conditional update: claim the candidate if it is still pending,
\* otherwise return None
claim_job_update(w) ==
  /\ worker[w].pc = "claim_update"
  /\ LET id == worker[w].job_data[1].id IN
       IF claim_matches(id)
       THEN /\ jobs' = [jobs EXCEPT ![id] = claimed_row(jobs[id], w)]
            /\ worker' = [worker EXCEPT ![w].pc = "claim_doc",
                                        ![w].job = Some(DocumentJob(jobs'[id]))]
       ELSE /\ worker' = [worker EXCEPT ![w] = claim_lost(w)]
            /\ UNCHANGED jobs
  /\ UNCHANGED <<call, docs, now, failures>>

\* the document update that follows a successful claim, then return the job
claim_job_document(w) ==
  /\ worker[w].pc = "claim_doc"
  /\ docs' = [docs EXCEPT ![worker[w].job_data[1].document_id].status = "processing"]
  /\ worker' = [worker EXCEPT ![w].pc = "process"]
  /\ UNCHANGED <<call, jobs, now, failures>>

\* ------------------------------------------------------------------ main

\* the locals main() keeps when a call has returned to the polling loop
Polling(w) == [Idle EXCEPT !.job_data = worker[w].job_data, !.job = worker[w].job]

\* enter fail_job(job.id, job.document_id, msg) from call site `site`
CallFailJob(w, site, msg) ==
  [worker[w] EXCEPT !.pc = "fail_read", !.site = site, !.error_msg = Some(msg),
                    !.result = None, !.final_status = "", !.version_key = None,
                    !.current_versions = <<>>, !.new_attempts = 0,
                    !.is_final_failure = FALSE]

\* download_pdf raises: fail_job("Failed to download PDF: ...") and continue
download_fails(w) ==
  /\ worker[w].pc = "process"
  /\ \E e \in Errors :
       worker' = [worker EXCEPT ![w] =
                    CallFailJob(w, "download", <<"Failed to download PDF: ", e>>)]
  /\ failures' = [failures EXCEPT ![worker[w].job[1].id] = @ + 1]
  /\ UNCHANGED <<call, jobs, docs, now>>

\* (mutant) the dispatch without its else branch: a job of another type is
\* left as it is and the loop goes on
unknown_job_type_ignored(w) ==
  /\ worker[w].pc = "process"
  /\ worker[w].job[1].job_type \notin {"extraction", "ocr"}
  /\ worker' = [worker EXCEPT ![w] = Polling(w)]
  /\ UNCHANGED <<call, jobs, docs, now, failures>>

\* the job type is neither 'extraction' nor 'ocr': fail_job("Unknown job type")
unknown_job_type(w) ==
  /\ worker[w].pc = "process"
  /\ worker[w].job[1].job_type \notin {"extraction", "ocr"}
  /\ worker' = [worker EXCEPT ![w] =
                  CallFailJob(w, "unknown",
                              <<"Unknown job type: ", worker[w].job[1].job_type>>)]
  /\ failures' = [failures EXCEPT ![worker[w].job[1].id] = @ + 1]
  /\ UNCHANGED <<call, jobs, docs, now>>

\* the handler raises before it calls complete_job
handler_raises(w) ==
  /\ worker[w].pc = "process"
  /\ worker[w].job[1].job_type \in {"extraction", "ocr"}
  /\ \E e \in Errors :
       worker' = [worker EXCEPT ![w] =
                    CallFailJob(w, "handler", <<"Processing failed: ", e>>)]
  /\ failures' = [failures EXCEPT ![worker[w].job[1].id] = @ + 1]
  /\ UNCHANGED <<call, jobs, docs, now>>

\* locals of worker w about to call complete_job(job.id, job.document_id,
\* result, final_status)
Handled(w, outcome) ==
  [worker[w] EXCEPT !.pc = "complete_update", !.result = Some(outcome.result),
                    !.final_status = outcome.final_status]

\* the handler of job has its result: it goes on to complete_job, or the
\* exception that left process_document_ocr leaves the handler too and
\* main() calls fail_job("Processing failed: ...")
handler_ends(w, job, result) ==
  IF is_raised(result)
  THEN /\ worker' = [worker EXCEPT ![w] =
                       CallFailJob(w, "handler", <<"Processing failed: ", result.raised>>)]
       /\ failures' = [failures EXCEPT ![job.id] = @ + 1]
  ELSE /\ worker' = [worker EXCEPT ![w] =
                       Handled(w, IF job.job_type = "extraction"
                                  THEN extraction_outcome(result)
                                  ELSE ocr_outcome(result))]
       /\ UNCHANGED failures

\* handle_extraction_job / handle_ocr_job up to the call of complete_job:
\* a result, the quality verdict and the final status chosen from it
handle_job(w) ==
  /\ worker[w].pc = "process"
  /\ LET job == worker[w].job[1]
           pdf_bytes == stored_pdf(job.document_id)
       IN
       /\ job.job_type \in {"extraction", "ocr"}
       /\ handler_ends(w, job, IF job.job_type = "extraction"
                               THEN extract_text_from_pdf(pdf_bytes)
                               ELSE process_document_ocr(pdf_bytes))
  /\ UNCHANGED <<call, jobs, docs, now>>

\* ----------------------------------------------------------- complete_job

\* the columns the job update of complete_job sets
completed_row(row, result) ==
  [row EXCEPT !.status = "completed", !.result = Some(result)]

\* the job update of complete_job: .eq('id', job_id) only
complete_job_update(w) ==
  /\ worker[w].pc = "complete_update"
  /\ jobs' = [jobs EXCEPT ![worker[w].job[1].id] =
                            completed_row(jobs[worker[w].job[1].id], worker[w].result[1])]
  /\ worker' = [worker EXCEPT ![w].pc = "complete_read"]
  /\ UNCHANGED <<call, docs, now, failures>>

\* generate the version key from the clock and read the document's map
complete_job_read(w) ==
  /\ worker[w].pc = "complete_read"
  /\ worker' = [worker EXCEPT
       ![w].pc = "complete_doc",
       ![w].version_key = version_key(worker[w].result[1], now),
       ![w].current_versions = docs[worker[w].job[1].document_id].ocr_versions]
  /\ UNCHANGED <<call, jobs, docs, now, failures>>

\* write the whole map back with the new entry, the final status and the
\* page count; complete_job and the handler return
complete_job_document(w) ==
  /\ worker[w].pc = "complete_doc"
  /\ LET d == worker[w].job[1].document_id IN
       docs' = [docs EXCEPT
         ![d].status = worker[w].final_status,
         ![d].ocr_versions = merge_versions(worker[w].current_versions,
                                            worker[w].version_key, worker[w].result[1]),
         ![d].page_count = worker[w].result[1].metrics.total_pages]
  /\ worker' = [worker EXCEPT ![w] = Polling(w)]
  /\ UNCHANGED <<call, jobs, now, failures>>

\* --------------------------------------------------------------- fail_job

\* (mutant) new_attempts + 1 >= job['max_attempts']
is_final_failure_early(new_attempts, max_attempts) == new_attempts + 1 >= max_attempts

\* (mutant) new_attempts > job['max_attempts']
is_final_failure_strict(new_attempts, max_attempts) == new_attempts > max_attempts

\* is_final_failure = new_attempts >= job['max_attempts']
is_final_failure(new_attempts, max_attempts) == new_attempts >= max_attempts

\* (mutant) the job update of fail_job without the two lock columns
failed_row_keeps_lock(row, new_attempts, final, error_msg) ==
  [row EXCEPT !.status = IF final THEN "failed" ELSE "pending",
              !.attempts = new_attempts,
              !.last_error = Some(error_msg)]

\* (mutant) the job update of fail_job writing the attempts it read
failed_row_same_attempts(row, new_attempts, final, error_msg) ==
  [row EXCEPT !.status = IF final THEN "failed" ELSE "pending",
              !.attempts = new_attempts - 1,
              !.last_error = Some(error_msg),
              !.locked_at = Null,
              !.locked_by = Null]

\* (mutant) the job update of fail_job leaving a job that can be retried
\* 'processing'
failed_row_not_released(row, new_attempts, final, error_msg) ==
  [row EXCEPT !.status = IF final THEN "failed" ELSE "processing",
              !.attempts = new_attempts,
              !.last_error = Some(error_msg),
              !.locked_at = Null,
              !.locked_by = Null]

\* the columns the job update of fail_job sets
failed_row(row, new_attempts, final, error_msg) ==
  [row EXCEPT !.status = IF final THEN "failed" ELSE "pending",
              !.attempts = new_attempts,
              !.last_error = Some(error_msg),
              !.locked_at = Null,
              !.locked_by = Null]

\* read attempts and max_attempts of the job
fail_job_read(w) ==
  /\ worker[w].pc = "fail_read"
  /\ worker[w].job[1].id \in DOMAIN jobs
  /\ LET job == jobs[worker[w].job[1].id] IN
       worker' = [worker EXCEPT
         ![w].pc = "fail_update",
         ![w].new_attempts = job.attempts + 1,
         ![w].is_final_failure = is_final_failure(job.attempts + 1, job.max_attempts)]
  /\ UNCHANGED <<call, jobs, docs, now, failures>>

\* The select finds no row with the job id: .single() gives no data and
\* fail_job prints and returns, or the client raises for the missing row;
\* either way the call ends here (site keeps which way).
fail_job_not_found(w) ==
  /\ worker[w].pc = "fail_read"
  /\ worker[w].job[1].id \notin DOMAIN jobs
  /\ \E outcome \in {"returned", "raised"} :
       worker' = [worker EXCEPT ![w] = [Polling(w) EXCEPT !.site = outcome]]
  /\ UNCHANGED <<call, jobs, docs, now, failures>>

\* the job update of fail_job; a non-final failure returns here
fail_job_update(w) ==
  /\ worker[w].pc = "fail_update"
  /\ LET id == worker[w].job[1].id IN
       jobs' = [jobs EXCEPT ![id] =
                  failed_row(jobs[id], worker[w].new_attempts,
                             worker[w].is_final_failure, worker[w].error_msg[1])]
  /\ worker' = [worker EXCEPT ![w] =
                  IF worker[w].is_final_failure
                  THEN [worker[w] EXCEPT !.pc = "fail_doc"]
                  ELSE Polling(w)]
  /\ UNCHANGED <<call, docs, now, failures>>

\* final failure: mark the document as error, then return
fail_job_document(w) ==
  /\ worker[w].pc = "fail_doc"
  /\ LET d == worker[w].job[1].document_id IN
       docs' = [docs EXCEPT
         ![d].status = "error",
         ![d].error_message =
            Some(error_message(worker[w].new_attempts, worker[w].error_msg[1]))]
  /\ worker' = [worker EXCEPT ![w] = Polling(w)]
  /\ UNCHANGED <<call, jobs, now, failures>>

\* ------------------------------------------------------------ store errors

\* a store call inside claim_job raises instead of executing: the exception
\* reaches the outer handler of main(), which logs, sleeps and polls again
claim_job_raises(w) ==
  /\ worker[w].pc \in {"claim_update", "claim_doc"}
  /\ worker' = [worker EXCEPT ![w] = [Idle EXCEPT !.job_data = worker[w].job_data]]
  /\ UNCHANGED <<call, jobs, docs, now, failures>>

\* a store call inside complete_job raises instead of executing: the handler
\* propagates it and main() calls fail_job("Processing failed: ...")
complete_job_raises(w) ==
  /\ worker[w].pc \in {"complete_update", "complete_read", "complete_doc"}
  /\ \E e \in Errors :
       worker' = [worker EXCEPT ![w] =
                    CallFailJob(w, "handler", <<"Processing failed: ", e>>)]
  /\ failures' = [failures EXCEPT ![worker[w].job[1].id] = @ + 1]
  /\ UNCHANGED <<call, jobs, docs, now>>

\* (mutant) the two fail_job calls in except clauses without a try around them
fail_job_raised_escapes(w, e) ==
  IF worker[w].site = "unknown"
  THEN CallFailJob(w, "handler", <<"Processing failed: ", e>>)
  ELSE [Idle EXCEPT !.pc = "exited", !.site = worker[w].pc, !.error_msg = Some(<<e>>)]

\* where main() goes on when the fail_job call made at worker[w].site raises e
fail_job_raised(w, e) ==
  IF worker[w].site = "unknown"
  THEN CallFailJob(w, "handler", <<"Processing failed: ", e>>)
  ELSE Polling(w)

\* a store call inside fail_job raises instead of executing.  The call for
\* an unknown job type sits inside the try block, so its exception is caught
\* by `except Exception` and fail_job is called again; the other two calls
\* sit in except clauses and their exception reaches the outer handler.
fail_job_raises(w) ==
  /\ worker[w].pc \in {"fail_read", "fail_update", "fail_doc"}
  /\ \E e \in Errors : worker' = [worker EXCEPT ![w] = fail_job_raised(w, e)]
  /\ UNCHANGED <<call, jobs, docs, now, failures>>

\* ---------------------------------------------------------------- interrupt

\* the text of the interrupt signal's exception
KeyboardInterrupt == <<"KeyboardInterrupt">>

\* The interrupt signal arrives while worker w is anywhere in the loop.
\* KeyboardInterrupt is not an Exception: no `except Exception` clause
\* catches it, `except KeyboardInterrupt: raise` passes it on and the outer
\* handler prints and calls sys.exit(0).  site keeps where it arrived.
interrupt(w) ==
  /\ worker[w].pc # "exited"
  /\ worker' = [worker EXCEPT ![w] =
                  [Idle EXCEPT !.pc = "exited", !.site = worker[w].pc,
                               !.error_msg = Some(KeyboardInterrupt)]]
  /\ UNCHANGED <<call, jobs, docs, now, failures>>

\* ------------------------------------------------------- specifications

NextNoFault ==
  \/ Tick
  \/ \E w \in Workers :
       \/ claim_job_select(w)
       \/ claim_job_update(w)
       \/ claim_job_document(w)
       \/ download_fails(w)
       \/ unknown_job_type(w)
       \/ handler_raises(w)
       \/ handle_job(w)
       \/ complete_job_update(w)
       \/ complete_job_read(w)
       \/ complete_job_document(w)
       \/ fail_job_read(w)
       \/ fail_job_update(w)
       \/ fail_job_document(w)

Next ==
  \/ NextNoFault
  \/ \E w \in Workers :
       \/ claim_job_raises(w)
       \/ complete_job_raises(w)
       \/ fail_job_raises(w)

NextInterrupt ==
  \/ Next
  \/ \E w \in Workers : interrupt(w)

\* workers whose store calls may raise
Spec == Init /\ [][Next]_vars

\* workers whose store calls never raise
SpecNoFault == InitNoFault /\ [][NextNoFault]_vars

\* as SpecNoFault, over jobs created with any attempts in 0..max_attempts
SpecCreated == InitCreated /\ [][NextNoFault]_vars

\* as Spec, with the interrupt signal arriving at any worker at any time
SpecInterrupt == InitSingle /\ [][NextInterrupt]_vars

\* the job_types arguments callers of claim_job pass: none, one type, the
\* two types with a handler
JobTypeLists == {{}, {"ocr"}, {"extraction", "ocr"}, {"thumbnail"}}

NextPriority ==
  \/ Tick
  \/ \E w \in Workers :
       \/ \E job_types \in JobTypeLists : claim_job_select_types(w, job_types)
       \/ claim_job_update(w)
       \/ claim_job_document(w)
       \/ download_fails(w)
       \/ unknown_job_type(w)
       \/ handler_raises(w)
       \/ handle_job(w)
       \/ complete_job_update(w)
       \/ complete_job_read(w)
       \/ complete_job_document(w)
       \/ fail_job_read(w)
       \/ fail_job_update(w)
       \/ fail_job_document(w)

\* as SpecNoFault, over jobs of any priority and creation order, claim_job
\* being called with any list of job types
SpecPriority == InitPriority /\ [][NextPriority]_vars

\* a job id that no row of document_jobs has
MissingJobId == NumJobs + 1

\* fail_job(job_id, document_id, error_msg) has been called by worker 1: for
\* a job it has claimed (the row 'processing' under its lock, with attempts
\* below max_attempts, the document 'processing'), or with an id that no
\* row has.  The other rows are pending.
InitFailJob ==
  \E table \in Tables([j \in JobIds |-> {r \in CreatedRows(j) : r.attempts < r.max_attempts}]) :
  \E job_id \in JobIds \cup {MissingJobId} :
  \E document_id \in DocIds :
     /\ job_id \in JobIds => document_id = table[job_id].document_id
     /\ jobs = IF job_id \in JobIds
               THEN [table EXCEPT ![job_id] = claimed_row(@, 1)]
               ELSE table
     /\ docs = [d \in DocIds |->
                 IF d = document_id /\ job_id \in JobIds
                 THEN [NewDoc(d) EXCEPT !.status = "processing"]
                 ELSE NewDoc(d)]
     /\ worker = [w \in Workers |->
                   IF w = 1
                   THEN [Idle EXCEPT
                           !.pc = "fail_read", !.site = "handler",
                           !.error_msg = Some(<<"Processing failed: ", "boom">>),
                           !.job = Some([id |-> job_id, document_id |-> document_id,
                                         job_type |-> "ocr", attempts |-> 0])]
                   ELSE Idle]
     /\ now = 1
     /\ failures = [j \in JobIds |-> 0]
     /\ call = NoCall

NextFailJob ==
  \E w \in Workers :
     \/ fail_job_read(w)
     \/ fail_job_not_found(w)
     \/ fail_job_update(w)
     \/ fail_job_document(w)

\* one call of fail_job, from its first store call to its return
SpecFailJob == InitFailJob /\ [][NextFailJob]_vars

\* one step of the loop of main() in worker w, store calls never raising
main(w) ==
  \/ claim_job_select(w)
  \/ claim_job_update(w)
  \/ claim_job_document(w)
  \/ download_fails(w)
  \/ unknown_job_type(w)
  \/ handler_raises(w)
  \/ handle_job(w)
  \/ complete_job_update(w)
  \/ complete_job_read(w)
  \/ complete_job_document(w)
  \/ fail_job_read(w)
  \/ fail_job_update(w)
  \/ fail_job_document(w)

\* Workers that never crash and keep polling: `while True` in main() takes
\* the next step of the loop whenever there is one (time.sleep returns, every
\* call returns or raises), over pending jobs that have failed before.
SpecPolling ==
  InitPending /\ [][NextNoFault]_vars /\ \A w \in Workers : WF_vars(main(w))

\* ======================================================================
\* Calls of the pure functions on their own
\* ======================================================================

\* the job tables play no part while one pure function is called
NoWorkers ==
  /\ jobs = <<>> /\ docs = <<>> /\ worker = <<>> /\ now = 1 /\ failures = <<>>

\* ------------------------------------------------- document sufficiency

\* page counts on both sides of 50 * page_count = 500
PageCounts == {0, 1} \cup ((MaxPageCount - 2)..MaxPageCount)
\* the minimum lengths max(500, 50 * page_count) these page counts give
Thresholds == {max(500, 50 * n) : n \in PageCounts}
Around(n) == {n - 1, n, n + 1}
\* texts on both sides of each minimum length and of the ratio 0.5
Texts ==
  {Concat(Chars("other", n), Chars(c, k)) :
     n \in {0} \cup UNION {Around(t \div 2) \cup Around(t) : t \in Thresholds},
     c \in CharClasses \ {"other"},
     k \in {0} \cup UNION {Around(t \div 2) : t \in Thresholds}}
\* strings to append: non-whitespace or one kind of whitespace, short or long
Suffixes == {Chars(c, k) : c \in CharClasses, k \in {1, 50}}

\* a call of one of the two document-sufficiency predicates on (text,
\* page_count); s is the string appended for the second call
InitQuality ==
  /\ NoWorkers
  /\ call \in [fn : {"is_extraction_sufficient", "is_doc_ocr_sufficient"},
               text : Texts, page_count : PageCounts, s : Suffixes,
               ret : {None}, before : {None}]

\* the predicate returns
sufficient_returns ==
  /\ call.fn \in {"is_extraction_sufficient", "is_doc_ocr_sufficient"}
  /\ call.ret = None
  /\ call' = [call EXCEPT !.ret =
                Some(IF call.fn = "is_extraction_sufficient"
                     THEN is_extraction_sufficient(call.text, call.page_count)
                     ELSE is_doc_ocr_sufficient(call.text, call.page_count))]
  /\ UNCHANGED <<jobs, docs, worker, now, failures>>

\* call the predicate again on text + s with the same page_count
append_and_call_again ==
  /\ call.fn \in {"is_extraction_sufficient", "is_doc_ocr_sufficient"}
  /\ call.ret # None /\ call.before = None
  /\ call' = [call EXCEPT !.text = Concat(call.text, call.s),
                          !.before = call.ret, !.ret = None]
  /\ UNCHANGED <<jobs, docs, worker, now, failures>>

NextQuality == sufficient_returns \/ append_and_call_again

SpecQuality == InitQuality /\ [][NextQuality]_vars

\* ------------------------------------------------------------ page quality

\* block texts: short ones, and one and two characters around 50
BlockTexts == {Chars("other", n) : n \in {5, 17, 49, 50, 51}}
\* confidences: none, and values at and around the thresholds
Confidences ==
  {None} \cup {Some(Decimal(p, 100)) : p \in {59, 60, 61, 70, 93}}
\* the lists of n blocks: n - 1 blocks b and a last block
ListsOf(b, n) ==
  {[i \in 1..n |-> IF i < n THEN b ELSE OcrBlock(t2, c2, None, {})] :
     t2 \in {b.text, Chars("other", 5)},
     c2 \in {b.confidence, None, Some(Decimal(60, 100))}}
BlockLists ==
  {<<>>} \cup
  UNION {ListsOf(OcrBlock(t, c, None, {}), n) :
           t \in BlockTexts, c \in Confidences, n \in 1..MaxBlocks}

\* a call is_page_quality_ok(blocks, min_conf, min_chars), under either
\* implementation of sum()
InitPageQuality ==
  /\ NoWorkers
  /\ call \in [fn : {"is_page_quality_ok"}, blocks : BlockLists,
               min_conf : {Decimal(60, 100), Decimal(70, 100)},
               min_chars : {OCR_MIN_CHARS_PER_PAGE}, compensated_sum : BOOLEAN,
               ret : {None}]

page_quality_returns ==
  /\ call.fn = "is_page_quality_ok"
  /\ call.ret = None
  /\ call' = [call EXCEPT !.ret =
                Some(is_page_quality_ok(call.blocks, call.min_conf, call.min_chars))]
  /\ UNCHANGED <<jobs, docs, worker, now, failures>>

NextPageQuality == page_quality_returns

SpecPageQuality == InitPageQuality /\ [][NextPageQuality]_vars

\* -------------------------------------------------------- extraction path

\* text layers of a page: none, junk, and pure text around the lengths at
\* which a one-page document reaches 500 characters with and without its
\* separator; one with a trailing newline; a lone newline and a run of
\* spaces
PageTexts ==
  {Chars("other", n) : n \in {0, 20} \cup Around(482) \cup Around(500)}
  \cup {Concat(Chars("other", 500), Chars("newline", 1))}
  \cup {Chars("newline", 1), Chars("space", 3)}

\* PDFs of 0..MaxPdfPages pages with these text layers (no OCR involved)
TextPdfs ==
  UNION {[1..n -> {Page(t, <<>>, <<>>, <<>>) : t \in PageTexts}] : n \in 0..MaxPdfPages}

\* handle_extraction_job is given the bytes of one of these PDFs
InitExtraction ==
  /\ NoWorkers
  /\ call \in [fn : {"handle_extraction_job"}, pdf : TextPdfs,
               extracted : {None}, outcome : {None}]

\* extract_text_from_pdf returns
extraction_returns ==
  /\ call.fn = "handle_extraction_job"
  /\ call.extracted = None
  /\ call' = [call EXCEPT !.extracted = Some(extract_text_from_pdf(call.pdf))]
  /\ UNCHANGED <<jobs, docs, worker, now, failures>>

\* the handler has judged the text and is about to call complete_job
extraction_judged ==
  /\ call.fn = "handle_extraction_job"
  /\ call.extracted # None /\ call.outcome = None
  /\ call' = [call EXCEPT !.outcome = Some(extraction_outcome(call.extracted[1]))]
  /\ UNCHANGED <<jobs, docs, worker, now, failures>>

NextExtraction == extraction_returns \/ extraction_judged

SpecExtraction == InitExtraction /\ [][NextExtraction]_vars

\* --------------------------------------------------------------- OCR router

\* what an OCR engine finds on a rendering of a page: a good paragraph, a
\* paragraph read with low confidence, a page number only, or nothing
PageScans ==
  {<<OcrBlock(Chars("other", 60), Some(Decimal(93, 100)), None, {})>>,
   <<OcrBlock(Chars("other", 60), Some(Decimal(59, 100)), None, {})>>,
   <<OcrBlock(Chars("other", 2), None, None, {"page_number", "digit"})>>,
   <<>>}

\* scanned PDFs of 0..MaxPdfPages pages without a text layer
ScannedPdfs ==
  UNION {[1..n -> {Page(EmptyText, a, b, c) :
                     a \in PageScans, b \in PageScans, c \in PageScans}] :
           n \in 0..MaxPdfPages}

\* what the patterns of the classifier find in the texts of the blocks
\* below: the text of 12 characters is a numbered heading
PositionedFeatures(text) ==
  IF text = Chars("other", 12) THEN {"section_header"} ELSE {}

\* blocks with a bounding box on a page rendered 1000 units high and 800
\* wide: a line, a short line and a numbered heading at the top of the
\* page, centred and narrow; the same texts in the middle of the page at
\* full width; and the same without a bounding box
PositionedBlocks ==
  {OcrBlock(Chars("other", n), Some(Decimal(93, 100)), bbox,
            PositionedFeatures(Chars("other", n))) :
     n \in {10, 12, 60},
     bbox \in {None, Some(<<300, 0, 200, 20>>), Some(<<100, 500, 600, 20>>)}}

\* one-page PDFs with two blocks on the page; the rerun reads what the
\* first pass read
PositionedPdfs ==
  {<<Page(EmptyText, <<a[1], a[2]>>, <<a[1], a[2]>>, <<b[1], b[2]>>)>> :
     a \in PositionedBlocks \X PositionedBlocks,
     b \in PositionedBlocks \X PositionedBlocks}

\* process_document_ocr is given the bytes of one of these PDFs
InitPositioned ==
  /\ NoWorkers
  /\ call \in [fn : {"process_document_ocr"}, pdf : PositionedPdfs,
               compensated_sum : {FALSE}, ret : {None}]

\* process_document_ocr is given the bytes of one of these PDFs
InitRouter ==
  /\ NoWorkers
  /\ call \in [fn : {"process_document_ocr"}, pdf : ScannedPdfs,
               compensated_sum : BOOLEAN, ret : {None}]

\* process_document_ocr returns
router_returns ==
  /\ call.fn = "process_document_ocr"
  /\ call.ret = None
  /\ call' = [call EXCEPT !.ret = Some(process_document_ocr(call.pdf))]
  /\ UNCHANGED <<jobs, docs, worker, now, failures>>

NextRouter == router_returns

SpecRouter == InitRouter /\ [][NextRouter]_vars

\* process_document_ocr on pages whose blocks have bounding boxes
SpecPositioned == InitPositioned /\ [][NextRouter]_vars

\* ------------------------------------------- OCR router, one page at a time

\* paddle.ocr_image / tesseract.ocr_image is called on a rendering of page
\* page_num at dpi; is_ok is the verdict of the page check, None if the
\* blocks are not checked
OcrCall(engine, page_num, dpi, is_ok) ==
  [engine |-> engine, page_num |-> page_num, dpi |-> dpi, is_ok |-> is_ok]

\* process_document_ocr is entered: its lists are empty and no page has
\* been rendered
InitPhases ==
  /\ NoWorkers
  /\ call \in [fn : {"process_document_ocr, by page"}, pdf : ScannedPdfs,
               compensated_sum : BOOLEAN, pc : {"phase 1"}, i : {0},
               page_results : {<<>>}, bad_page_nums : {<<>>}, still_bad : {<<>>},
               fallback_page_nums : {<<>>}, ocr_calls : {<<>>}, ret : {None}]

\* one iteration of `for page_num in range(page_count)`
phase1_page ==
  /\ call.fn = "process_document_ocr, by page"
  /\ call.pc = "phase 1" /\ call.i < Len(call.pdf)
  /\ LET page_num == call.i
          blocks == call.pdf[page_num + 1].paddle_initial
          is_ok == is_page_quality_ok(blocks, OCR_MIN_CONFIDENCE, OCR_MIN_CHARS_PER_PAGE)
     IN call' = [call EXCEPT
          !.i = @ + 1,
          !.ocr_calls = Append(@, OcrCall("paddle", page_num, OCR_DPI_INITIAL, Some(is_ok))),
          !.page_results = initial_result(@, page_num, blocks, is_ok),
          !.bad_page_nums = IF is_ok THEN @ ELSE Append(@, page_num)]
  /\ UNCHANGED <<jobs, docs, worker, now, failures>>

\* the loop of phase 1 ends: `if bad_page_nums:`
phase1_ends ==
  /\ call.fn = "process_document_ocr, by page"
  /\ call.pc = "phase 1" /\ call.i = Len(call.pdf)
  /\ call' = [call EXCEPT !.i = 0,
                          !.pc = IF call.bad_page_nums # <<>> THEN "phase 2"
                                 ELSE "normalize"]
  /\ UNCHANGED <<jobs, docs, worker, now, failures>>

\* one iteration of `for page_num in bad_page_nums`
phase2_page ==
  /\ call.fn = "process_document_ocr, by page"
  /\ call.pc = "phase 2" /\ call.i < Len(call.bad_page_nums)
  /\ LET page_num == call.bad_page_nums[call.i + 1]
          blocks == call.pdf[page_num + 1].paddle_rerun
          is_ok == is_page_quality_ok(blocks, OCR_MIN_CONFIDENCE, OCR_MIN_CHARS_PER_PAGE)
     IN call' = [call EXCEPT
          !.i = @ + 1,
          !.ocr_calls = Append(@, OcrCall("paddle", page_num, OCR_DPI_RERUN, Some(is_ok))),
          !.page_results = rerun_result(@, page_num, blocks, is_ok),
          !.still_bad = IF is_ok THEN @ ELSE Append(@, page_num)]
  /\ UNCHANGED <<jobs, docs, worker, now, failures>>

\* the loop of phase 2 ends: `if still_bad:`
phase2_ends ==
  /\ call.fn = "process_document_ocr, by page"
  /\ call.pc = "phase 2" /\ call.i = Len(call.bad_page_nums)
  /\ call' = [call EXCEPT !.i = 0,
                          !.pc = IF call.still_bad # <<>> THEN "phase 3" ELSE "normalize"]
  /\ UNCHANGED <<jobs, docs, worker, now, failures>>

\* one iteration of `for page_num in still_bad`
phase3_page ==
  /\ call.fn = "process_document_ocr, by page"
  /\ call.pc = "phase 3" /\ call.i < Len(call.still_bad)
  /\ LET page_num == call.still_bad[call.i + 1]
          blocks == call.pdf[page_num + 1].tesseract
     IN call' = [call EXCEPT
          !.i = @ + 1,
          !.ocr_calls = Append(@, OcrCall("tesseract", page_num, OCR_DPI_RERUN, None)),
          !.fallback_page_nums = Append(@, page_num),
          !.page_results = fallback_result(@, page_num, blocks)]
  /\ UNCHANGED <<jobs, docs, worker, now, failures>>

\* the loop of phase 3 ends
phase3_ends ==
  /\ call.fn = "process_document_ocr, by page"
  /\ call.pc = "phase 3" /\ call.i = Len(call.still_bad)
  /\ call' = [call EXCEPT !.i = 0, !.pc = "normalize"]
  /\ UNCHANGED <<jobs, docs, worker, now, failures>>

\* the pages are normalised, the OcrVersion is built and returned
phases_return ==
  /\ call.fn = "process_document_ocr, by page"
  /\ call.pc = "normalize"
  /\ call' = [call EXCEPT
       !.pc = "returned",
       !.ret = Some(ocr_version_of(call.pdf, call.page_results, call.bad_page_nums,
                                   call.fallback_page_nums))]
  /\ UNCHANGED <<jobs, docs, worker, now, failures>>

NextPhases ==
  \/ phase1_page \/ phase1_ends
  \/ phase2_page \/ phase2_ends
  \/ phase3_page \/ phase3_ends
  \/ phases_return

\* process_document_ocr followed through its three loops
SpecPhases == InitPhases /\ [][NextPhases]_vars

\* -------------------------------------------------------- build_ocr_version

\* normalised blocks: two paragraphs read with different confidences and a
\* page number without one
BuiltBlocks ==
  {PageBlock("paragraph", Chars("other", 60), Some(Decimal(93, 100)), None),
   PageBlock("paragraph", Chars("other", 40), Some(Decimal(59, 100)), None),
   PageBlock("page_number", Chars("other", 2), None, None)}

\* lists of 0..MaxPdfPages pages of 0..MaxPageBlocks blocks each, numbered
\* from 1
BuiltPages ==
  {[i \in DOMAIN bs |-> OcrPage(i, bs[i])] :
     bs \in ListsUpTo(ListsUpTo(BuiltBlocks, MaxPageBlocks), MaxPdfPages)}

\* build_ocr_version is called on one of these lists, as the router calls
\* it when no page was bad
InitBuild ==
  /\ NoWorkers
  /\ call \in [fn : {"build_ocr_version"}, pages : BuiltPages,
               compensated_sum : BOOLEAN, ret : {None}]

\* build_ocr_version returns
build_returns ==
  /\ call.fn = "build_ocr_version"
  /\ call.ret = None
  /\ call' = [call EXCEPT !.ret =
                Some(built_version(call.pages, ocr_engine(<<>>, Len(call.pages)),
                                   <<>>, <<>>))]
  /\ UNCHANGED <<jobs, docs, worker, now, failures>>

NextBuild == build_returns

SpecBuild == InitBuild /\ [][NextBuild]_vars

\* ------------------------------------------------------- Tesseract engine

\* A text as pytesseract returns it: the whitespace before its first and
\* after its last other character, and the text between them (for a text
\* of whitespace only: empty); raw.strip() is that text.
RawText(lead, body, trail) == [lead |-> lead, body |-> body, trail |-> trail]
strip(raw) == raw.body

\* one entry i of the dict of image_to_data: data['text'][i],
\* data['conf'][i], data['left'][i], data['top'][i], data['width'][i],
\* data['height'][i]
Entry(text, conf, left, top, width, height) ==
  [text |-> text, conf |-> conf, left |-> left, top |-> top, width |-> width,
   height |-> height]

\* (mutant) the block of an entry with the test `if not text: continue`
entry_block_whatever_conf(blocks, text, entry) ==
  IF len(text) = 0 THEN blocks
  ELSE Append(blocks,
              OcrBlock(text,
                       IF entry.conf >= 0 THEN Some(fdiv_int(float(entry.conf), 100))
                       ELSE None,
                       Some(<<entry.left, entry.top, entry.width, entry.height>>), {}))

\* one iteration of the loop of ocr_image over the entries: the entry is
\* skipped, or its block is appended to blocks
entry_block(blocks, text, entry) ==
  IF len(text) = 0 \/ entry.conf < 0 THEN blocks
  ELSE Append(blocks,
              OcrBlock(text,
                       IF entry.conf >= 0 THEN Some(fdiv_int(float(entry.conf), 100))
                       ELSE None,
                       Some(<<entry.left, entry.top, entry.width, entry.height>>), {}))

\* blocks after the first n entries
RECURSIVE entry_blocks(_, _)
entry_blocks(data, n) ==
  IF n = 0 THEN <<>>
  ELSE entry_block(entry_blocks(data, n - 1), strip(data[n].text), data[n])

\* the except branch of ocr_image: image_to_string(...).strip() as one block
\* without confidence and bbox, or no block for an empty text or a second
\* exception
string_blocks(string) ==
  IF string = None THEN <<>>
  ELSE IF len(strip(string[1])) # 0
  THEN <<OcrBlock(strip(string[1]), None, None, {})>>
  ELSE <<>>

\* TesseractEngine.ocr_image: data is what image_to_data returns and string
\* what image_to_string returns, None when the call raises
ocr_image(data, string) ==
  IF data # None THEN entry_blocks(data[1], Len(data[1])) ELSE string_blocks(string)

\* raw texts: empty, whitespace only, a word, a word between whitespace
RawTexts ==
  {RawText(0, EmptyText, 0), RawText(2, EmptyText, 0),
   RawText(0, Chars("other", 4), 0),
   RawText(1, Concat(Chars("other", 7), Chars("space", 1)), 2)}

\* raw confidences of Tesseract: -1 for an entry that is no word, 0..100
RawConfidences == {-1, 0, 59, 100}

\* the entries of image_to_data
Entries == {Entry(t, c, 10, 20, 30, 40) : t \in RawTexts, c \in RawConfidences}

\* ocr_image is called on an image for which image_to_data returns at most
\* MaxEntries entries or raises, and image_to_string a text or raises
InitTesseract ==
  /\ NoWorkers
  /\ call \in [fn : {"ocr_image"},
               data : {None} \cup {Some(d) : d \in ListsUpTo(Entries, MaxEntries)},
               string : {None} \cup {Some(t) : t \in RawTexts},
               ret : {None}]

\* ocr_image returns
ocr_image_returns ==
  /\ call.fn = "ocr_image"
  /\ call.ret = None
  /\ call' = [call EXCEPT !.ret = Some(ocr_image(call.data, call.string))]
  /\ UNCHANGED <<jobs, docs, worker, now, failures>>

NextTesseract == ocr_image_returns

SpecTesseract == InitTesseract /\ [][NextTesseract]_vars

\* ------------------------------------------------------------ classifier

\* texts given to the classifier: plain ones of lengths around 30, 60 and 80,
\* an empty one and one of whitespace only, one starting with a digit, and
\* one for each content pattern ("12", "Figure 3: ...", "Introduction",
\* "[1] See ..."), also a page number pattern stretched beyond 20 characters
ClassifierTexts ==
  {ClassifiedText(Chars("other", n), {}) : n \in {0, 10, 29, 30, 59, 60, 79, 80, 120}}
  \cup {ClassifiedText(Chars("space", 2), {}),
        ClassifiedText(Chars("other", 10), {"digit"}),
        ClassifiedText(Chars("other", 2), {"page_number", "digit"}),
        ClassifiedText(Concat(Chars("other", 4), Chars("space", 20)), {"page_number"}),
        ClassifiedText(Concat(Chars("other", 18), Chars("space", 2)), {"caption"}),
        ClassifiedText(Chars("other", 12), {"section_header"}),
        ClassifiedText(Concat(Chars("other", 10), Chars("space", 2)), {"footnote_marker"})}

\* bounding boxes [x, y, width, height] on a page of 1000 by 800 units: a
\* wide and a narrow centred box, starting at the top, at 79 and 80 units
\* from it, in the middle, in the footnote zone and at the bottom
Bboxes ==
  {None} \cup {Some(<<xw[1], y, xw[2], h>>) :
                 xw \in {<<100, 600>>, <<300, 200>>},
                 y \in {0, 79, 80, 500, 850, 950}, h \in {20, 100}}

\* page dimensions (page_height, page_width): unknown, known, width unknown
PageDimensions == {<<0, 0>>, <<1000, 800>>, <<1000, 0>>}

\* classify_block is called
InitClassify ==
  /\ NoWorkers
  /\ call \in [fn : {"classify_block"}, text : ClassifierTexts, bbox : Bboxes,
               page : PageDimensions, ret : {None}]

\* classify_block returns
classify_returns ==
  /\ call.fn = "classify_block"
  /\ call.ret = None
  /\ call' = [call EXCEPT !.ret =
                Some(classify_block(call.text, call.bbox, call.page[1], call.page[2]))]
  /\ UNCHANGED <<jobs, docs, worker, now, failures>>

NextClassify == classify_returns

SpecClassify == InitClassify /\ [][NextClassify]_vars

\* ------------------------------------------------------------------ results

\* either producer of a Result is called: the extractor, inside
\* handle_extraction_job, or the OCR router
InitResult == InitExtraction \/ InitRouter

NextResult == extraction_returns \/ extraction_judged \/ router_returns

SpecResult == InitResult /\ [][NextResult]_vars

\* ======================================================================
\* Claims
\* ======================================================================

\* the latest claim_job call of w selected a candidate and has ended
CallEnded(w) ==
  /\ worker[w].job_data # None
  /\ worker[w].pc \notin {"claim_update", "claim_doc"}

\* the latest claim_job call of w has returned a job
CallReturnedJob(w) == CallEnded(w) /\ worker[w].job # None

\* the workers whose latest claim_job call selected the same pending row as w's
Racers(w) == {v \in Workers : worker[v].job_data = worker[w].job_data}

\* ------------------------------------------------------------------ C1

Holds(w, j) ==
  /\ worker[w].pc \notin {"poll", "claim_update"}
  /\ worker[w].job # None
  /\ worker[w].job[1].id = j

\* C2: in every reachable state a job is in flight with at most one worker.
C2_OneHolderPerJob ==
  \A j \in JobIds : Cardinality({w \in Workers : Holds(w, j)}) <= 1

\* a retried job is in flight with a worker other than the one that failed it
C2_Witness ==
  \E w, v \in Workers, j \in JobIds :
    /\ w # v
    /\ worker[w].pc = "process" /\ Holds(w, j)
    /\ jobs[j].attempts >= 1
    /\ worker[v].pc = "poll" /\ worker[v].job # None /\ worker[v].job[1].id = j

\* ------------------------------------------------------------------ C3

StatusTransitions ==
  {<<"pending", "processing">>, <<"processing", "completed">>,
   <<"processing", "failed">>, <<"processing", "pending">>}

\* C3: a job's status changes only along pending -> processing,
\* processing -> completed, processing -> failed and processing -> pending;
\* completed and failed are final.  Store calls may raise.
C3_StatusTransitions ==
  [][\A j \in JobIds :
       jobs'[j].status # jobs[j].status
       => <<jobs[j].status, jobs'[j].status>> \in StatusTransitions]_vars

\* ------------------------------------------------------------------ C4

\* C4: every job in status 'processing' has locked_by and locked_at set.
C4_ProcessingIsLocked ==
  \A j \in JobIds :
    jobs[j].status = "processing"
    => (jobs[j].locked_by # Null /\ jobs[j].locked_at # Null)

\* a job that fail_job unlocked and re-queued is processing again, locked
C4_Witness ==
  \E j \in JobIds, w \in Workers :
    /\ jobs[j].status = "processing"
    /\ jobs[j].attempts >= 1
    /\ jobs[j].locked_by = w /\ jobs[j].locked_at # Null

\* ------------------------------------------------------------------ C5

\* C5 as stated: attempts <= max_attempts in every reachable state, and a
\* job is 'failed' only with attempts = max_attempts.
C5_AttemptsBounded ==
  \A j \in JobIds :
    /\ jobs[j].attempts <= jobs[j].max_attempts
    /\ (jobs[j].status = "failed" => jobs[j].attempts = jobs[j].max_attempts)

\* ------------------------------------------------------------------ C6

\* C6: the job update of fail_job sets attempts to attempts + 1, last_error
\* to the message and clears the lock; the job becomes 'failed' if
\* attempts + 1 >= max_attempts and 'pending' otherwise; on a final failure
\* the document update sets status 'error' and the message
\* 'Processing failed after <attempts+1> attempts: <msg>'.
C6_FailJobEffect ==
  [][\A w \in Workers :
       /\ fail_job_update(w) =>
            LET id == worker[w].job[1].id IN
              /\ jobs'[id].attempts = jobs[id].attempts + 1
              /\ jobs'[id].last_error = worker[w].error_msg
              /\ jobs'[id].locked_by = Null /\ jobs'[id].locked_at = Null
              /\ jobs'[id].status =
                   (IF jobs[id].attempts + 1 >= jobs[id].max_attempts
                    THEN "failed" ELSE "pending")
              /\ (worker'[w].pc = "fail_doc") = (jobs'[id].status = "failed")
       /\ fail_job_document(w) =>
            LET id == worker[w].job[1].id
                d  == worker[w].job[1].document_id IN
              /\ docs'[d].status = "error"
              /\ docs'[d].error_message =
                   Some(<<"Processing failed after ", jobs[id].attempts,
                          " attempts: ", jobs[id].last_error[1]>>)]_vars

\* a job failed for good on its second attempt and its document says so
C6_Witness ==
  \E j \in JobIds :
    /\ jobs[j].status = "failed" /\ jobs[j].attempts = 2
    /\ jobs[j].locked_by = Null /\ jobs[j].locked_at = Null
    /\ docs[jobs[j].document_id].status = "error"
    /\ docs[jobs[j].document_id].error_message =
         Some(<<"Processing failed after ", 2, " attempts: ", jobs[j].last_error[1]>>)

\* ------------------------------------------------------------------ C7

\* C7: for a claimed job with attempts + 1 < max_attempts, fail_job leaves
\* it 'pending' with locked_by and locked_at null; and a claim update for a
\* job that has been failed back to 'pending' matches: the job becomes
\* 'processing' under the claiming worker's lock and the call gets the row.
C7_FailThenReclaim ==
  [][\A w \in Workers :
       /\ (/\ fail_job_update(w)
           /\ jobs[worker[w].job[1].id].attempts + 1
                < jobs[worker[w].job[1].id].max_attempts)
          => LET id == worker[w].job[1].id IN
               /\ jobs'[id].status = "pending"
               /\ jobs'[id].locked_by = Null /\ jobs'[id].locked_at = Null
       /\ (/\ claim_job_update(w)
           /\ jobs[worker[w].job_data[1].id].status = "pending"
           /\ failures[worker[w].job_data[1].id] >= 1)
          => LET id == worker[w].job_data[1].id IN
               /\ jobs'[id].status = "processing"
               /\ jobs'[id].locked_by = w /\ jobs'[id].locked_at # Null
               /\ worker'[w].pc = "claim_doc"
               /\ worker'[w].job # None
               /\ worker'[w].job[1].id = id]_vars

\* claim_job has returned a job that an earlier fail_job re-queued
C7_Witness ==
  \E j \in JobIds, w \in Workers :
    /\ failures[j] >= 1
    /\ worker[w].pc = "process"
    /\ worker[w].job # None /\ worker[w].job[1].id = j
    /\ worker[w].job[1].attempts = failures[j]
    /\ jobs[j].status = "processing" /\ jobs[j].locked_by = w

\* ------------------------------------------------------------------ C8

\* the failing fail_job call for job j has returned
FailJobReturned(j) ==
  \A w \in Workers : ~(worker[w].pc = "fail_doc" /\ worker[w].job[1].id = j)

\* j is the only job of its document
OnlyJobOfDocument(j) ==
  \A i \in JobIds : jobs[i].document_id = jobs[j].document_id => i = j

\* C8: for a job created with attempts 0 and max_attempts N, with k the
\* number of its processing attempts that have failed: while it waits in
\* 'pending' attempts = k < N; once 'completed', attempts is still k < N;
\* once 'failed', attempts = k = N and (fail_job returned, no other job on
\* the document) the document is in status 'error'.
C8_RetryScenario ==
  \A j \in JobIds :
    LET N == jobs[j].max_attempts
        k == failures[j] IN
      /\ jobs[j].status = "pending" => (jobs[j].attempts = k /\ k < N)
      /\ jobs[j].status = "completed" => (jobs[j].attempts = k /\ k < N)
      /\ jobs[j].status = "failed" =>
           /\ jobs[j].attempts = N /\ k = N
           /\ (FailJobReturned(j) /\ OnlyJobOfDocument(j))
              => docs[jobs[j].document_id].status = "error"

\* a job with three attempts allowed failed twice and then completed
C8_Witness ==
  \E j \in JobIds :
    /\ jobs[j].max_attempts = 3
    /\ failures[j] = 2
    /\ jobs[j].status = "completed" /\ jobs[j].attempts = 2

\* ------------------------------------------------------------------ C9

\* C9: the ocr_versions map of every document is append-only: every key
\* stored keeps its value in the next state.
C9_VersionsAppendOnly ==
  [][\A d \in DocIds :
       \A k \in DOMAIN docs[d].ocr_versions :
         /\ k \in DOMAIN docs'[d].ocr_versions
         /\ docs'[d].ocr_versions[k] = docs[d].ocr_versions[k]]_vars

\* ------------------------------------------------------------------ C10

\* C10: the document update of complete_job stores the result under a key
\* that the stored map did not have, and the stored map grows by one entry.
C10_FreshVersionKey ==
  [][\A w \in Workers :
       complete_job_document(w) =>
         LET d == worker[w].job[1].document_id IN
           /\ worker[w].version_key \notin DOMAIN docs[d].ocr_versions
           /\ Cardinality(DOMAIN docs'[d].ocr_versions)
                = Cardinality(DOMAIN docs[d].ocr_versions) + 1]_vars

\* ------------------------------------------------------------------ C11

\* an exception raised by claim_job, download_pdf, a handler, complete_job
\* or fail_job reaches worker w in this step
Raises(w) ==
  \/ claim_job_raises(w)
  \/ download_fails(w)
  \/ handler_raises(w)
  \/ complete_job_raises(w)
  \/ fail_job_raises(w)

\* C11: only the interrupt signal ends the worker loop.  A step in which a
\* worker leaves the loop is the arrival of KeyboardInterrupt, and after
\* every step in which one of the loop's calls raises, the worker is still
\* in the loop: polling again, or inside the fail_job call its except
\* clause makes.
C11_OnlyInterruptEndsLoop ==
  [][\A w \in Workers :
       /\ (worker[w].pc # "exited" /\ worker'[w].pc = "exited")
          => worker'[w].error_msg = Some(KeyboardInterrupt)
       /\ Raises(w) => worker'[w].pc \in {"poll", "fail_read"}]_vars

\* fail_job raised inside an except clause (its job is still 'processing'
\* under the worker's lock after a failed attempt) and the worker polls again
C11_Witness ==
  \E w \in Workers, j \in JobIds :
    /\ worker[w].pc = "poll"
    /\ worker[w].job # None /\ worker[w].job[1].id = j
    /\ failures[j] >= 1
    /\ jobs[j].status = "processing" /\ jobs[j].locked_by = w

\* ------------------------------------------------------------------ C12

\* positions of main() during download_pdf or inside a handler
InFlight == {"process", "complete_update", "complete_read", "complete_doc"}

\* C12: a worker that exited on an interrupt that arrived during the
\* download or inside a handler has left no job 'processing' under its lock.
C12_NoExitWithJobInFlight ==
  \A w \in Workers :
    (worker[w].pc = "exited" /\ worker[w].site \in InFlight)
    => \A j \in JobIds : ~(jobs[j].status = "processing" /\ jobs[j].locked_by = w)

\* ------------------------------------------------------------------ C13

\* the handler of a job of type job_type returns normally to worker w: the
\* last step of complete_job
HandlerReturns(w, job_type) ==
  complete_job_document(w) /\ worker[w].job[1].job_type = job_type

\* C13: after handle_extraction_job returns normally, the job is
\* 'completed' and the document status is 'ready' if
\* is_extraction_sufficient(doc_text, total_pages) holds and 'pending_ocr'
\* otherwise; exactly one warning beginning 'Insufficient text extracted' is
\* appended to the result iff it is insufficient, and the warnings list is
\* empty otherwise.
C13_ExtractionOutcome ==
  [][\A w \in Workers :
       HandlerReturns(w, "extraction")
       => LET job == worker[w].job[1]
              result == worker[w].result[1]
              sufficient == is_extraction_sufficient(result.doc_text,
                                                     result.metrics.total_pages)
          IN /\ jobs'[job.id].status = "completed"
             /\ docs'[job.document_id].status =
                  IF sufficient THEN "ready" ELSE "pending_ocr"
             /\ docs'[job.document_id].ocr_versions[worker[w].version_key] = result
             /\ IF sufficient THEN result.warnings = <<>>
                ELSE /\ Len(result.warnings) = 1
                     /\ result.warnings[1][1] = "Insufficient text extracted ("]_vars

\* an extraction job is completed with one warning in its result and its
\* document is 'pending_ocr'
C13_Witness ==
  \E j \in JobIds :
    /\ jobs[j].job_type = "extraction" /\ jobs[j].status = "completed"
    /\ Len(jobs[j].result[1].warnings) = 1
    /\ docs[jobs[j].document_id].status = "pending_ocr"

\* ------------------------------------------------------------------ C14

\* C14: after handle_ocr_job returns normally, the job is 'completed' and
\* the document status is 'ready' if is_doc_ocr_sufficient(doc_text,
\* total_pages) holds and 'ocr_failed' otherwise; a warning is appended to
\* the result iff it is insufficient.  The job never ends 'failed' merely
\* because OCR text was insufficient.
C14_OcrOutcome ==
  [][\A w \in Workers :
       HandlerReturns(w, "ocr")
       => LET job == worker[w].job[1]
              result == worker[w].result[1]
              sufficient == is_doc_ocr_sufficient(result.doc_text,
                                                  result.metrics.total_pages)
          IN /\ jobs'[job.id].status = "completed"
             /\ jobs'[job.id].attempts = job.attempts
             /\ docs'[job.document_id].status =
                  IF sufficient THEN "ready" ELSE "ocr_failed"
             /\ docs'[job.document_id].ocr_versions[worker[w].version_key] = result
             /\ IF sufficient THEN result.warnings = <<>>
                ELSE /\ Len(result.warnings) = 1
                     /\ result.warnings[1][1] = "OCR produced insufficient text ("]_vars

\* an OCR job is completed with a warning in its result and its document is
\* 'ocr_failed'
C14_Witness ==
  \E j \in JobIds :
    /\ jobs[j].job_type = "ocr" /\ jobs[j].status = "completed"
    /\ Len(jobs[j].result[1].warnings) = 1
    /\ docs[jobs[j].document_id].status = "ocr_failed"

\* ------------------------------------------------------------------ C15

\* C15: the document-sufficiency predicate is monotone in text length: if
\* it returned true for (t, page_count), it returns true for
\* (t + s, page_count).
C15_SufficiencyMonotone ==
  (call.fn \in {"is_extraction_sufficient", "is_doc_ocr_sufficient"}
   /\ call.before = Some(TRUE) /\ call.ret # None)
  => call.ret = Some(TRUE)

\* ------------------------------------------------------------------ C16

\* C16: the predicate returns true iff len(text) >= max(500, 50 *
\* page_count) and the characters other than space, tab, newline and
\* carriage return are more than half of len(text); never for empty text.
C16_SufficiencyPredicate ==
  (call.fn \in {"is_extraction_sufficient", "is_doc_ocr_sufficient"} /\ call.ret # None)
  => /\ call.ret[1] =
          (/\ len(call.text) >= max(500, 50 * call.page_count)
           /\ 2 * call.text.other > len(call.text))
     /\ len(call.text) = 0 => call.ret = Some(FALSE)

\* both predicates have accepted a text of exactly the minimum length for 12
\* pages with one character more than half of it non-whitespace, and
\* rejected one of exactly half whitespace
C16_Witness ==
  /\ call.fn = "is_doc_ocr_sufficient" /\ call.page_count = 12
  /\ call.before = None
  /\ \/ (len(call.text) = 600 /\ call.text.other = 301 /\ call.ret = Some(TRUE))
     \/ (len(call.text) = 600 /\ call.text.other = 300 /\ call.ret = Some(FALSE))

\* ------------------------------------------------------------------ C17

\* C17: on the extraction path a one-page PDF whose text layer is exactly
\* 500 non-whitespace characters ends 'ready', and one of exactly 499
\* non-whitespace characters ends 'pending_ocr'.
C17_ExtractionBoundary ==
  (call.fn = "handle_extraction_job" /\ call.outcome # None /\ Len(call.pdf) = 1)
  => /\ call.pdf[1].text = Chars("other", 500) => call.outcome[1].final_status = "ready"
     /\ call.pdf[1].text = Chars("other", 499)
          => call.outcome[1].final_status = "pending_ocr"

\* ------------------------------------------------------------------ C18

\* the exact value m * 2^e of a sum of non-negative doubles, unrounded
RECURSIVE ExactSum(_, _)
ExactSum(floats, n) ==
  IF n = 0 THEN [m |-> <<>>, e |-> 0]
  ELSE LET s == ExactSum(floats, n - 1)
           x == floats[n]
           e == IF s.m = <<>> \/ x.e <= s.e THEN x.e ELSE s.e
       IN IF x.m = <<>> THEN s
          ELSE [m |-> NatAdd(NatShl(s.m, IF s.m = <<>> THEN 0 ELSE s.e - e),
                             NatShl(x.m, x.e - e)),
                e |-> e]

\* the mean of the doubles floats is >= the double bound, in exact arithmetic
MeanAtLeast(floats, bound) ==
  LET s == ExactSum(floats, Len(floats))
      b == [m |-> Trim(NatMulSmall(bound.m, Len(floats), 0)), e |-> bound.e]
      e == IF s.e <= b.e THEN s.e ELSE b.e
  IN IF b.m = <<>> THEN TRUE
     ELSE IF s.m = <<>> THEN FALSE
     ELSE NatCmp(NatShl(s.m, s.e - e), NatShl(b.m, b.e - e)) >= 0

\* C18: is_page_quality_ok(blocks, min_conf, min_chars) is true iff blocks
\* is non-empty, the block text lengths sum to at least min_chars, and no
\* block has a confidence or the mean of the confidences is >= min_conf.
\* With the defaults one block of 50 characters at confidence 0.6 is OK,
\* one of 49 characters is not, and one at confidence 0.59 is not.
C18_PageQualityOk ==
  (call.fn = "is_page_quality_ok" /\ call.ret # None)
  => LET blocks == call.blocks
         confidences == confidences_of(blocks, Len(blocks))
         one == Len(blocks) = 1 /\ call.min_conf = Decimal(6, 10) /\ call.min_chars = 50
     IN /\ call.ret[1] =
             (/\ blocks # <<>>
              /\ blocks_char_count(blocks, Len(blocks)) >= call.min_chars
              /\ (confidences = <<>> \/ MeanAtLeast(confidences, call.min_conf)))
        /\ (one /\ len(blocks[1].text) = 50 /\ confidences = <<Decimal(6, 10)>>)
             => call.ret = Some(TRUE)
        /\ (one /\ len(blocks[1].text) = 49 /\ confidences = <<Decimal(6, 10)>>)
             => call.ret = Some(FALSE)
        /\ (one /\ len(blocks[1].text) = 50 /\ confidences = <<Decimal(59, 100)>>)
             => call.ret = Some(FALSE)

\* ------------------------------------------------------------------ C19

\* the 0-based pages of pdf on which the router used the fallback engine:
\* both PaddleOCR passes failed the page check
UsedFallback(pdf) ==
  {p \in 0..(Len(pdf) - 1) :
     /\ ~is_page_quality_ok(pdf[p + 1].paddle_initial, OCR_MIN_CONFIDENCE,
                            OCR_MIN_CHARS_PER_PAGE)
     /\ ~is_page_quality_ok(pdf[p + 1].paddle_rerun, OCR_MIN_CONFIDENCE,
                            OCR_MIN_CHARS_PER_PAGE)}

\* C19: for every result of process_document_ocr on an N-page PDF: if no
\* page used the fallback engine then engine = method = 'paddle'; if all N
\* pages used it then engine = method = 'tesseract' with the fallback
\* engine's version; otherwise engine = method = 'hybrid' and
\* engine_version is 'paddle' + primary version + '+tess' + fallback version.
C19_EngineOfResult ==
  (call.fn = "process_document_ocr" /\ call.ret # None)
  => LET result == call.ret[1]
         used == UsedFallback(call.pdf)
         N == Len(call.pdf)
     IN IF used = {}
        THEN result.engine = "paddle" /\ result.metrics.method = "paddle"
        ELSE IF Cardinality(used) = N
        THEN /\ result.engine = "tesseract" /\ result.metrics.method = "tesseract"
             /\ result.engine_version = engine_version("tesseract")
        ELSE /\ result.engine = "hybrid" /\ result.metrics.method = "hybrid"
             /\ result.engine_version = "paddle2.7.3+tess5.0.0"

\* a two-page scan came back hybrid: one page read by PaddleOCR, the other
\* by Tesseract
C19_Witness ==
  /\ call.fn = "process_document_ocr" /\ call.ret # None
  /\ Len(call.pdf) = 2
  /\ Cardinality(UsedFallback(call.pdf)) = 1
  /\ call.ret[1].engine = "hybrid"

\* ------------------------------------------------------------------ C20

\* the set of entries of a list
set(xs) == {xs[i] : i \in DOMAIN xs}

\* C20: for every result of process_document_ocr: set(fallback_pages) is a
\* subset of set(bad_pages), which is a subset of {0..total_pages-1};
\* bad_pages is exactly the set of 0-based pages that failed the per-page
\* check in phase 1 and fallback_pages exactly the set of those that also
\* failed it in phase 2; neither list contains a page twice.
C20_BadAndFallbackPages ==
  (call.fn = "process_document_ocr" /\ call.ret # None)
  => LET metrics == call.ret[1].metrics
         pdf == call.pdf
         failed1 == {p \in 0..(Len(pdf) - 1) :
                       ~is_page_quality_ok(pdf[p + 1].paddle_initial,
                                           OCR_MIN_CONFIDENCE, OCR_MIN_CHARS_PER_PAGE)}
         failed2 == {p \in failed1 :
                       ~is_page_quality_ok(pdf[p + 1].paddle_rerun,
                                           OCR_MIN_CONFIDENCE, OCR_MIN_CHARS_PER_PAGE)}
     IN /\ set(metrics.fallback_pages) \subseteq set(metrics.bad_pages)
        /\ set(metrics.bad_pages) \subseteq 0..(metrics.total_pages - 1)
        /\ set(metrics.bad_pages) = failed1
        /\ set(metrics.fallback_pages) = failed2
        /\ Cardinality(set(metrics.bad_pages)) = Len(metrics.bad_pages)
        /\ Cardinality(set(metrics.fallback_pages)) = Len(metrics.fallback_pages)

\* a two-page scan with both pages bad in phase 1 and only the second one
\* still bad in phase 2
C20_Witness ==
  /\ call.fn = "process_document_ocr" /\ call.ret # None
  /\ call.ret[1].metrics.bad_pages = <<0, 1>>
  /\ call.ret[1].metrics.fallback_pages = <<1>>

\* ------------------------------------------------------------------ C25

\* C25: is_extraction_sufficient and is_doc_ocr_sufficient return the same
\* boolean for every (text, page_count): whichever of the two was called,
\* what it returned is what the other one returns on the same arguments.
C25_SamePredicate ==
  (call.fn \in {"is_extraction_sufficient", "is_doc_ocr_sufficient"} /\ call.ret # None)
  => /\ call.ret = Some(is_extraction_sufficient(call.text, call.page_count))
     /\ call.ret = Some(is_doc_ocr_sufficient(call.text, call.page_count))

\* the extraction predicate has rejected a text that is long enough for its
\* pages but shorter than 500 characters, with most of it non-whitespace
C25_Witness ==
  /\ call.fn = "is_extraction_sufficient" /\ call.ret = Some(FALSE)
  /\ len(call.text) < 500 /\ len(call.text) >= 50 * call.page_count
  /\ 2 * call.text.other > len(call.text)

\* ------------------------------------------------------------------ C21

\* extract_text_from_pdf or process_document_ocr has ended
HasResult ==
  \/ call.fn = "handle_extraction_job" /\ call.extracted # None
  \/ call.fn = "process_document_ocr" /\ call.ret # None

\* what it returned, or the exception that left it
Result == IF call.fn = "handle_extraction_job" THEN call.extracted[1] ELSE call.ret[1]

\* C21: every call of extract_text_from_pdf or process_document_ocr on an
\* N-page PDF returns a Result (no placeholder is left for the
\* normalisation loop to trip on) with len(pages) = metrics.total_pages = N
\* whose i-th page record carries page number i.
C21_PagesOfResult ==
  HasResult
  => /\ ~is_raised(Result)
     /\ Len(Result.pages) = Len(call.pdf)
     /\ Result.metrics.total_pages = Len(call.pdf)
     /\ \A i \in 1..Len(Result.pages) : Result.pages[i].page = i

\* the router has returned the two pages of a scan whose pages were both
\* bad in phase 1, the first of them read by Tesseract in phase 3 and the
\* second by the PaddleOCR rerun
C21_Witness ==
  /\ call.fn = "process_document_ocr" /\ call.ret # None
  /\ ~is_raised(call.ret[1])
  /\ call.ret[1].metrics.bad_pages = <<0, 1>>
  /\ call.ret[1].metrics.fallback_pages = <<0>>
  /\ Len(call.ret[1].pages) = 2 /\ call.ret[1].pages[2].page = 2

\* ------------------------------------------------------------------ C22

\* the lengths of the texts of all blocks of the first n pages, page by page
RECURSIVE BlockLengths(_, _)
BlockLengths(pages, n) ==
  IF n = 0 THEN <<>>
  ELSE BlockLengths(pages, n - 1)
       \o [j \in 1..Len(pages[n].blocks) |-> len(pages[n].blocks[j].text)]

\* the sum of the first n entries of a list of integers
RECURSIVE Sum(_, _)
Sum(xs, n) == IF n = 0 THEN 0 ELSE Sum(xs, n - 1) + xs[n]

\* C22: for every Result of the extractor or of the router,
\* metrics.char_count is the sum of len(block.text) over all blocks of all
\* pages of the Result, pages of whitespace-only text included.
C22_CharCount ==
  (HasResult /\ ~is_raised(Result))
  => LET lengths == BlockLengths(Result.pages, Len(Result.pages))
     IN Result.metrics.char_count = Sum(lengths, Len(lengths))

\* ------------------------------------------------------------------ C23

\* C23: process_document_ocr on a PDF with zero pages returns, without
\* raising, a Result with an empty pages list, metrics.total_pages = 0,
\* engine and method 'paddle', empty bad_pages and fallback_pages, no
\* dpi_rerun and the empty string as doc_text.
C23_ZeroPages ==
  (call.fn = "process_document_ocr" /\ call.ret # None /\ Len(call.pdf) = 0)
  => /\ ~is_raised(call.ret[1])
     /\ call.ret[1].pages = <<>>
     /\ call.ret[1].metrics.total_pages = 0
     /\ call.ret[1].engine = "paddle" /\ call.ret[1].metrics.method = "paddle"
     /\ call.ret[1].metrics.bad_pages = <<>>
     /\ call.ret[1].metrics.fallback_pages = <<>>
     /\ call.ret[1].metrics.dpi_rerun = None
     /\ call.ret[1].doc_text = EmptyText

\* the router has returned from a PDF without pages
C23_Witness ==
  /\ call.fn = "process_document_ocr" /\ call.pdf = <<>> /\ call.ret # None
  /\ call.ret[1].metrics.dpi_initial = Some(OCR_DPI_INITIAL)

\* ------------------------------------------------------------------ C26

\* the defined confidences of all blocks of the first n pages, in order
RECURSIVE DefinedConfidences(_, _)
DefinedConfidences(pages, n) ==
  IF n = 0 THEN <<>>
  ELSE LET blocks == pages[n].blocks
           defined == {j \in DOMAIN blocks : blocks[j].confidence # None}
           nth(k) == CHOOSE j \in defined : Cardinality({i \in defined : i <= j}) = k
       IN DefinedConfidences(pages, n - 1)
          \o [k \in 1..Cardinality(defined) |-> blocks[nth(k)].confidence[1]]

\* the double v is the mean of the non-negative doubles floats up to the
\* rounding of the additions and of the division: in exact arithmetic
\* |v * n - s| * 2^52 <= n * s for their sum s and their number n
MeanOf(v, floats) ==
  LET n == Len(floats)
      s == ExactSum(floats, n)
      vn == [m |-> Trim(NatMulSmall(v.m, n, 0)), e |-> v.e]
      e == IF s.e <= vn.e THEN s.e ELSE vn.e
      a == NatShl(vn.m, vn.e - e)
      b == NatShl(s.m, s.e - e)
      diff == IF NatCmp(a, b) >= 0 THEN NatSub(a, b) ELSE NatSub(b, a)
  IN /\ ~v.neg
     /\ NatCmp(NatShl(diff, 52), Trim(NatMulSmall(b, n, 0))) <= 0

\* C26: metrics.avg_conf of a Result of build_ocr_version is null iff no
\* block of any page has a confidence; otherwise it is the mean of the
\* confidences of all blocks that have one, across all pages: the double
\* sum(cs) / len(cs) of the flat list cs, which is the arithmetic mean up
\* to rounding.
C26_AvgConf ==
  (call.fn = "build_ocr_version" /\ call.ret # None)
  => LET avg_conf == call.ret[1].metrics.avg_conf
         cs == DefinedConfidences(call.pages, Len(call.pages))
     IN /\ (avg_conf = None) = (cs = <<>>)
        /\ cs # <<>> => /\ avg_conf = Some(fdiv_int(sum_floats(cs), Len(cs)))
                         /\ MeanOf(avg_conf[1], cs)

\* a Result of two pages: two blocks read at 0.93 on the first, one read at
\* 0.59 and a page number without confidence on the second
C26_Witness ==
  /\ call.fn = "build_ocr_version" /\ call.ret # None
  /\ Len(call.pages) = 2
  /\ DefinedConfidences(call.pages, 1) = <<Decimal(93, 100), Decimal(93, 100)>>
  /\ Len(call.pages[2].blocks) = 2
  /\ DefinedConfidences(call.pages, 2)
       = <<Decimal(93, 100), Decimal(93, 100), Decimal(59, 100)>>
  /\ call.ret[1].metrics.avg_conf # None

\* ------------------------------------------------------------------ C24

\* C24: for a block with non-empty text that matches no content pattern,
\* known positive page dimensions and a bbox with y / page_height = 0.079
\* (and its lower edge above the footer zone), classify_block does not
\* return 'header'.
C24_NotHeaderByPosition ==
  (/\ call.fn = "classify_block" /\ call.ret # None
   /\ trimmed_len(call.text) > 0
   /\ call.text.features \cap {"page_number", "caption", "section_header",
                                "footnote_marker"} = {}
   /\ call.page[1] > 0 /\ call.page[2] > 0
   /\ call.bbox # None
   /\ fdiv_int(float(call.bbox[1][2]), call.page[1]) = Decimal(79, 1000)
   /\ ~fgt(fdiv_int(float(call.bbox[1][2] + call.bbox[1][4]), call.page[1]), footer_zone))
  => call.ret[1] # "header"

\* ------------------------------------------------------------------ C27

\* the entries of data that have a text after trimming and a raw confidence
\* of at least 0, in order
RECURSIVE Kept(_, _)
Kept(data, n) ==
  IF n = 0 THEN <<>>
  ELSE IF len(strip(data[n].text)) > 0 /\ data[n].conf >= 0
  THEN Append(Kept(data, n - 1), data[n])
  ELSE Kept(data, n - 1)

\* C27: every block returned by ocr_image, for raw confidences in -1..100,
\* has a non-empty trimmed text, a confidence that is null or lies in
\* [0, 1], and a bbox that is null or has exactly 4 entries; when
\* image_to_data returns, the blocks are the entries with a non-empty
\* trimmed text and a non-negative raw confidence, one block each with the
\* confidence raw / 100, so no other entry appears in the output.
C27_TesseractBlocks ==
  (call.fn = "ocr_image" /\ call.ret # None)
  => LET blocks == call.ret[1]
     IN /\ \A i \in DOMAIN blocks :
             /\ len(blocks[i].text) > 0 /\ blocks[i].text.other > 0
             /\ \/ blocks[i].confidence = None
                \/ /\ ~flt(blocks[i].confidence[1], float(0))
                   /\ ~fgt(blocks[i].confidence[1], float(1))
             /\ blocks[i].bbox = None \/ Len(blocks[i].bbox[1]) = 4
        /\ call.data # None
             => LET kept == Kept(call.data[1], Len(call.data[1]))
                IN /\ Len(blocks) = Len(kept)
                   /\ \A i \in DOMAIN blocks :
                        /\ blocks[i].text = strip(kept[i].text)
                        /\ blocks[i].confidence = Some(Decimal(kept[i].conf, 100))

\* ocr_image was given an entry without a word (raw confidence -1) and a
\* word between whitespace read at 59, and has returned the one block of
\* the word
C27_Witness ==
  /\ call.fn = "ocr_image" /\ call.ret # None /\ call.data # None
  /\ Len(call.data[1]) = 2
  /\ call.data[1][1].conf = -1 /\ len(strip(call.data[1][1].text)) > 0
  /\ call.data[1][2].conf = 59 /\ call.data[1][2].text.lead = 1
  /\ Len(call.ret[1]) = 1
  /\ call.ret[1][1].confidence = Some(Decimal(59, 100))

\* ------------------------------------------------------------------ C28

\* worker w holds a claimed job (the claim update has succeeded and neither
\* complete_job nor fail_job has returned or been entered) and in this step
\* an exception is raised by the document update of claim_job, by
\* download_pdf, by the handler or by a store call of complete_job
RaisesHoldingJob(w) ==
  \/ worker[w].pc = "claim_doc" /\ claim_job_raises(w)
  \/ download_fails(w)
  \/ handler_raises(w)
  \/ complete_job_raises(w)

\* C28: every exception raised while a worker holds a claimed job, from the
\* successful claim update through the document-status update, the
\* download, the handler and complete_job, makes the worker call fail_job
\* for that job.
C28_ExceptionBecomesFailJob ==
  [][\A w \in Workers :
       RaisesHoldingJob(w)
       => /\ worker'[w].pc = "fail_read"
          /\ worker'[w].job = worker[w].job]_vars

\* ------------------------------------------------------------------ C29

\* in this step worker w returns to the polling loop from complete_job
CompletesAttempt(w) == complete_job_document(w)

\* in this step worker w returns to the polling loop from a fail_job call,
\* normally or by an exception raised inside it
FailsAttempt(w) ==
  /\ worker[w].pc \in {"fail_read", "fail_update", "fail_doc"}
  /\ worker'[w].pc = "poll"

\* C29: a claim changes the attempts counter of its job by at most one: by
\* exactly one when the processing attempt fails (download error, handler
\* exception, unknown job type, exception inside complete_job or
\* fail_job), not at all when it completes.  The counter is compared, when
\* the worker is back in the polling loop, with the one of the row the
\* claim returned.
C29_AttemptsPerClaim ==
  [][\A w \in Workers :
       /\ CompletesAttempt(w)
            => jobs'[worker[w].job[1].id].attempts = worker[w].job[1].attempts
       /\ FailsAttempt(w)
            => jobs'[worker[w].job[1].id].attempts = worker[w].job[1].attempts + 1]_vars

\* ----------------------------------------------------------------------
\* C30: with workers that keep polling and never crash, and no store error
\* inside claim_job, complete_job or fail_job, every pending job with
\* max_attempts >= 1 eventually reaches 'completed' or 'failed', and it is
\* claimed at most max_attempts - (initial attempts) times in total.
\* ----------------------------------------------------------------------

\* a worker holds job j between its claim and complete_job or fail_job
Claimed(j) ==
  \E w \in Workers :
     /\ worker[w].pc \in {"claim_doc", "process", "complete_update",
                          "complete_read", "complete_doc"}
     /\ worker[w].job[1].id = j

\* how many times job j has been claimed: the attempts that have failed,
\* the one in progress and the one that completed
claims(j) ==
  failures[j] + (IF Claimed(j) \/ jobs[j].status = "completed" THEN 1 ELSE 0)

Before(k, j) ==
  \/ jobs[k].priority > jobs[j].priority
  \/ jobs[k].priority = jobs[j].priority /\ jobs[k].created_at < jobs[j].created_at

\* job j is pending, matches the filter, and no such job comes before it
IsFirst(j, job_types) ==
  /\ jobs[j].status = "pending"
  /\ job_types # {} => jobs[j].job_type \in job_types
  /\ \A k \in JobIds :
        (/\ jobs[k].status = "pending"
         /\ job_types # {} => jobs[k].job_type \in job_types) => ~Before(k, j)

C31_ClaimsFirstPending ==
  [][/\ \A w \in Workers : \A job_types \in JobTypeLists :
          claim_job_select_types(w, job_types)
          => IsFirst(worker'[w].job_data[1].id, job_types)
     /\ \A w \in Workers :
          claim_job_document(w) => worker'[w].job[1].id = worker[w].job_data[1].id
     /\ \A j \in JobIds : /\ jobs'[j].priority = jobs[j].priority
                           /\ jobs'[j].created_at = jobs[j].created_at]_vars

\* a re-queued job of higher priority has been claimed again before an
\* older pending job
C31_Witness ==
  \E w \in Workers : \E k \in JobIds :
     /\ worker[w].pc = "process"
     /\ worker[w].job[1].attempts = 1
     /\ jobs[k].status = "pending"
     /\ jobs[k].created_at < jobs[worker[w].job[1].id].created_at
     /\ jobs[k].priority < jobs[worker[w].job[1].id].priority

\* ----------------------------------------------------------------------
\* C32: when the conditional claim update matches zero rows, claim_job
\* returns None and leaves every job row and every document row unchanged:
\* it does not set the document to 'processing' and does not try another
\* pending job, even when other pending jobs exist.
\* ----------------------------------------------------------------------

\* the claim update of worker w matches zero rows in this step
MatchesNoRow(w) ==
  /\ worker[w].pc = "claim_update"
  /\ jobs[worker[w].job_data[1].id].status # "pending"
  /\ claim_job_update(w)

C32_LostRaceChangesNothing ==
  [][\A w \in Workers :
       MatchesNoRow(w)
       => /\ jobs' = jobs
          /\ docs' = docs
          /\ worker'[w].pc = "poll"
          /\ worker'[w].job = None
          /\ worker'[w].job_data = worker[w].job_data]_vars

\* a worker is back in the loop without a job, its candidate in the hands
\* of another worker, while another job is pending on an untouched document
C32_Witness ==
  \E w \in Workers : \E k \in JobIds :
     /\ worker[w].pc = "poll"
     /\ worker[w].job_data # None
     /\ worker[w].job = None
     /\ jobs[worker[w].job_data[1].id].status = "processing"
     /\ jobs[worker[w].job_data[1].id].locked_by # w
     /\ k # worker[w].job_data[1].id
     /\ jobs[k].status = "pending"
     /\ docs[jobs[k].document_id].status = "uploaded"

\* ----------------------------------------------------------------------
\* C33: a claimed job whose job_type is neither 'extraction' nor 'ocr' is
\* passed, once its PDF is downloaded, to fail_job with the message
\* 'Unknown job type: <type>' without running any handler; it is never
\* marked 'completed', and with attempts 0 and max_attempts N it ends
\* 'failed' (document 'error') after exactly N claims.
\* ----------------------------------------------------------------------

OtherType(job_type) == job_type \notin {"extraction", "ocr"}

\* worker w, its download done, dispatches on the type of its job
Dispatches(w) ==
  /\ worker[w].pc = "process"
  /\ main(w)
  /\ ~download_fails(w)

PageOk(blocks) == is_page_quality_ok(blocks, OCR_MIN_CONFIDENCE, OCR_MIN_CHARS_PER_PAGE)

\* the result the first applicable stage gives for the scans of one page
FirstStage(page_num, scans) ==
  IF PageOk(scans.paddle_initial)
  THEN [page_num |-> page_num, blocks |-> scans.paddle_initial, method |-> "paddle",
        dpi_used |-> 200, needed_rerun |-> FALSE, used_fallback |-> FALSE]
  ELSE IF PageOk(scans.paddle_rerun)
  THEN [page_num |-> page_num, blocks |-> scans.paddle_rerun, method |-> "paddle",
        dpi_used |-> 300, needed_rerun |-> TRUE, used_fallback |-> FALSE]
  ELSE [page_num |-> page_num, blocks |-> scans.tesseract, method |-> "tesseract",
        dpi_used |-> 300, needed_rerun |-> TRUE, used_fallback |-> TRUE]

\* the k-th OCR call was the primary engine at dpi on page p, and failed
FailedAt(k, p, dpi) ==
  call.ocr_calls[k] = [engine |-> "paddle", page_num |-> p, dpi |-> dpi, is_ok |-> Some(FALSE)]

C34_FirstStageThatApplies ==
  /\ \A i \in DOMAIN call.page_results :
        /\ call.page_results[i] # None
             => call.page_results[i][1] = FirstStage(i - 1, call.pdf[i])
        /\ call.pc \in {"normalize", "returned"} => call.page_results[i] # None
  /\ call.pc \in {"normalize", "returned"} => Len(call.page_results) = Len(call.pdf)
  /\ \A k \in DOMAIN call.ocr_calls :
        /\ call.ocr_calls[k].engine = "tesseract"
             => /\ \E a \in 1..(k - 1) :
                     FailedAt(a, call.ocr_calls[k].page_num, 200)
                /\ \E b \in 1..(k - 1) :
                     FailedAt(b, call.ocr_calls[k].page_num, 300)
        /\ \A a \in 1..(k - 1) :
              call.ocr_calls[a].page_num = call.ocr_calls[k].page_num
              => call.ocr_calls[a].is_ok = Some(FALSE)

\* a two-page document has returned: one page read at the rerun DPI, the
\* other by the fallback engine
C34_Witness ==
  /\ call.pc = "returned"
  /\ \E i, j \in DOMAIN call.page_results :
        /\ call.page_results[i][1].method = "paddle"
        /\ call.page_results[i][1].needed_rerun
        /\ call.page_results[j][1].used_fallback
  /\ Len(call.ocr_calls) = 5

\* ----------------------------------------------------------------------
\* C35: in phase 3 the fallback engine's output for a still-bad page is
\* stored without any quality check: whatever block list it returns, the
\* empty list included, becomes that page's blocks, the page is recorded in
\* fallback_pages, and process_document_ocr still returns a Result.
\* ----------------------------------------------------------------------

\* the pages (0-based) that are still bad after phase 2
StillBadPages ==
  {p \in 0..(Len(call.pdf) - 1) :
     ~PageOk(call.pdf[p + 1].paddle_initial) /\ ~PageOk(call.pdf[p + 1].paddle_rerun)}

\* the blocks of a page record carry the texts and confidences of an
\* engine's blocks, in order
SameBlocks(page_blocks, blocks) ==
  /\ Len(page_blocks) = Len(blocks)
  /\ \A i \in DOMAIN blocks :
        /\ page_blocks[i].text = blocks[i].text
        /\ page_blocks[i].confidence = blocks[i].confidence

C35_FallbackAccepted ==
  /\ \A k \in DOMAIN call.fallback_page_nums :
        LET p == call.fallback_page_nums[k]
        IN /\ p \in StillBadPages
           /\ call.page_results[p + 1] # None
           /\ call.page_results[p + 1][1].blocks = call.pdf[p + 1].tesseract
  /\ call.pc = "returned"
       => /\ ~is_raised(call.ret[1])
          /\ \A p \in StillBadPages :
                /\ In(p, call.ret[1].metrics.fallback_pages)
                /\ SameBlocks(call.ret[1].pages[p + 1].blocks, call.pdf[p + 1].tesseract)

\* a Result has been returned with a page on which the fallback engine
\* found nothing, and one on which it read a paragraph with low confidence
C35_Witness ==
  /\ call.pc = "returned"
  /\ \E p, q \in StillBadPages :
        /\ call.pdf[p + 1].tesseract = <<>>
        /\ call.ret[1].pages[p + 1].blocks = <<>>
        /\ call.pdf[q + 1].tesseract # <<>>
        /\ ~PageOk(call.pdf[q + 1].tesseract)
        /\ call.ret[1].pages[q + 1].blocks # <<>>

\* ----------------------------------------------------------------------
\* C36: in every result of process_document_ocr, metrics.dpi_rerun is set
\* (to the rerun DPI) iff at least one page entered the bad set in phase 1,
\* and is null otherwise; metrics.dpi_initial is always set to the initial
\* DPI.
\* ----------------------------------------------------------------------

\* some page of the PDF fails the page check on its first rendering
SomePageBad ==
  \E p \in DOMAIN call.pdf :
     ~is_page_quality_ok(call.pdf[p].paddle_initial, OCR_MIN_CONFIDENCE,
                         OCR_MIN_CHARS_PER_PAGE)

C36_RerunDpiReported ==
  (call.fn = "process_document_ocr" /\ call.ret # None)
  => /\ ~is_raised(call.ret[1])
     /\ call.ret[1].metrics.dpi_initial = Some(200)
     /\ call.ret[1].metrics.dpi_rerun = IF SomePageBad THEN Some(300) ELSE None
     /\ SomePageBad <=> call.ret[1].metrics.bad_pages # <<>>

\* one result reports the rerun DPI although the rerun changed nothing
\* (the bad page went on to the fallback engine)
C36_Witness ==
  /\ call.fn = "process_document_ocr" /\ call.ret # None
  /\ call.ret[1].metrics.dpi_rerun = Some(300)
  /\ call.ret[1].metrics.fallback_pages = call.ret[1].metrics.bad_pages
  /\ Len(call.pdf) = 2 /\ Len(call.ret[1].metrics.bad_pages) = 1

\* ----------------------------------------------------------------------
\* C37: classify_block returns the role of the first rule that matches, in
\* this order: empty or whitespace text -> other; page-number pattern ->
\* page_number; caption pattern -> caption; section-header pattern ->
\* section_header; footnote marker -> footnote; then, only when bbox and
\* positive page dimensions are given, header zone with length < 80 ->
\* header, footer zone with length < 80 -> header, footnote zone with
\* leading digit -> footnote; centred narrow text with length < 60 ->
\* section_header; otherwise paragraph.  A content-pattern match decides
\* the role whatever the bbox is.
\* ----------------------------------------------------------------------

\* the position of the block of the call, known only with a bbox and
\* positive page dimensions
PositionKnown == call.bbox # None /\ call.page[1] > 0 /\ call.page[2] > 0
Position == get_block_position(call.bbox, call.page[1], call.page[2])[1]

InHeaderZone == PositionKnown /\ flt(Position.y_start, Decimal(8, 100))
InFooterZone == PositionKnown /\ flt(Decimal(92, 100), Position.y_end)
InFootnoteZone ==
  /\ PositionKnown
  /\ flt(Decimal(80, 100), Position.y_start)
  /\ flt(Position.y_end, Decimal(92, 100))
CentredNarrow ==
  /\ PositionKnown
  /\ flt(fabs(fsub(Position.x_center, Decimal(5, 10))), Decimal(15, 100))
  /\ flt(Position.width_ratio, Decimal(5, 10))

\* the rules in their order: whether each matches the call, and its role
Rules ==
  <<<<trimmed_len(call.text) = 0, "other">>,
    <<is_page_number(call.text), "page_number">>,
    <<is_caption(call.text), "caption">>,
    <<is_section_header(call.text), "section_header">>,
    <<is_footnote_marker(call.text), "footnote">>,
    <<InHeaderZone /\ trimmed_len(call.text) < 80, "header">>,
    <<InFooterZone /\ trimmed_len(call.text) < 80, "header">>,
    <<InFootnoteZone /\ "digit" \in call.text.features, "footnote">>,
    <<CentredNarrow /\ trimmed_len(call.text) < 60, "section_header">>,
    <<TRUE, "paragraph">>>>

\* the first rule that matches
FirstMatch == CHOOSE k \in DOMAIN Rules : Rules[k][1] /\ \A i \in 1..(k - 1) : ~Rules[i][1]

C37_FirstRuleWins ==
  (call.fn = "classify_block" /\ call.ret # None)
  => call.ret[1] = Rules[FirstMatch][2]

\* a short centred text at the bottom of the page is a running footer,
\* not a section header: the zone rule comes first
C37_Witness ==
  /\ call.fn = "classify_block" /\ call.ret # None
  /\ FirstMatch = 7
  /\ Rules[9][1]
  /\ call.ret[1] = "header"

\* ----------------------------------------------------------------------
\* C38: the doc_text of a Result built by build_ocr_version equals the
\* per-page texts of all pages, in page order, joined by a blank line,
\* where a page's text is the newline-join of the texts of its blocks whose
\* role is in {title, section_header, paragraph, list}; the text of a block
\* with any other role never contributes to doc_text.
\* ----------------------------------------------------------------------

\* the texts of the blocks of a page whose role is a core role, in order
RECURSIVE CoreTexts(_, _)
CoreTexts(blocks, n) ==
  IF n = 0 THEN <<>>
  ELSE IF blocks[n].type \in {"title", "section_header", "paragraph", "list"}
       THEN Append(CoreTexts(blocks, n - 1), blocks[n].text)
       ELSE CoreTexts(blocks, n - 1)

\* '\n'.join of the core texts of each page
PageTextsOf(pages) ==
  [i \in DOMAIN pages |->
     LET texts == CoreTexts(pages[i].blocks, Len(pages[i].blocks))
     IN join(1, texts, Len(texts))]

C38_DocText ==
  (call.fn = "build_ocr_version" /\ call.ret # None)
  => call.ret[1].doc_text
       = join(2, PageTextsOf(call.pages), Len(call.pages))

\* ----------------------------------------------------------------------
\* C39: a non-final fail_job (attempts + 1 < max_attempts) writes only the
\* job row: the document's status, error_message, ocr_versions and
\* page_count are left unchanged, so the document stays in status
\* 'processing' while its job is back in 'pending'; and fail_job on a job
\* id that does not exist writes nothing at all.
\* ----------------------------------------------------------------------

\* worker w is inside a fail_job call for an existing job that will not
\* be its final failure
NonFinalFailJob(w) ==
  /\ worker[w].pc \in {"fail_read", "fail_update", "fail_doc"}
  /\ worker[w].job[1].id \in JobIds
  /\ jobs[worker[w].job[1].id].status = "processing"
  /\ jobs[worker[w].job[1].id].attempts + 1 < jobs[worker[w].job[1].id].max_attempts

\* worker w is inside a fail_job call for a job id without a row
FailJobOfMissing(w) ==
  /\ worker[w].pc \in {"fail_read", "fail_update", "fail_doc"}
  /\ worker[w].job[1].id \notin JobIds

C39_NonFinalFailJobFrame ==
  [][\A w \in Workers :
       /\ NonFinalFailJob(w)
            => /\ docs' = docs
               /\ \A k \in JobIds : k # worker[w].job[1].id => jobs'[k] = jobs[k]
               /\ worker'[w].pc \in {"fail_update", "poll"}
               /\ worker'[w].pc = "poll"
                    => /\ jobs'[worker[w].job[1].id].status = "pending"
                       /\ docs'[worker[w].job[1].document_id].status = "processing"
       /\ FailJobOfMissing(w)
            => /\ docs' = docs /\ jobs' = jobs
               /\ worker'[w].pc = "poll"]_vars

\* a non-final fail_job has returned: the job is pending again with one
\* attempt counted, its document still 'processing'
C39_Witness ==
  \E j \in JobIds :
     /\ worker[1].pc = "poll"
     /\ worker[1].job[1].id = j
     /\ jobs[j].status = "pending" /\ jobs[j].attempts = 1 /\ jobs[j].max_attempts = 2
     /\ jobs[j].locked_by = Null
     /\ docs[jobs[j].document_id].status = "processing"

\* ----------------------------------------------------------------------
\* C40: in every Result produced by process_document_ocr each block's role
\* is determined by its text alone: the router calls the normaliser
\* without page width and height, so the position rules never apply, no
\* block has role 'header', and two blocks with equal text always get the
\* same role regardless of their bounding boxes.
\* ----------------------------------------------------------------------

\* the blocks of all pages of a Result
BlocksOf(result) ==
  UNION {{result.pages[p].blocks[i] : i \in DOMAIN result.pages[p].blocks} :
           p \in DOMAIN result.pages}

C40_RoleByTextAlone ==
  (call.fn = "process_document_ocr" /\ call.ret # None)
  => /\ ~is_raised(call.ret[1])
     /\ \A b \in BlocksOf(call.ret[1]) :
           /\ b.type # "header"
           /\ b.type = classify_block(
                ClassifiedText(b.text, PositionedFeatures(b.text)), None, 0, 0)
     /\ \A b, c \in BlocksOf(call.ret[1]) : b.text = c.text => b.type = c.type

\* a Result holds a short line at the top of the page, centred and narrow,
\* and the same text in the middle of the page: both are paragraphs
C40_Witness ==
  /\ call.fn = "process_document_ocr" /\ call.ret # None
  /\ \E b, c \in BlocksOf(call.ret[1]) :
        /\ b.text = c.text /\ b.text = Chars("other", 10)
        /\ b.bbox = Some(<<300, 0, 200, 20>>)
        /\ c.bbox = Some(<<100, 500, 600, 20>>)
        /\ b.type = "paragraph" /\ c.type = "paragraph"

====
